---------------------------- MODULE Spec2Model ----------------------------
(***************************************************************************)
(* A model of pandas_streaming.df.dataframe.StreamingDataFrame.            *)
(*                                                                         *)
(* A StreamingDataFrame is a function iter_creation that creates an        *)
(* iterator on dataframes (chunks), a check_schema flag and a stable flag. *)
(* Here a table is a record whose tag names the closure iter_creation      *)
(* holds (read_df's local_iterator, read_str's lambda on a StringIO, a     *)
(* map over the parent, ...), and a generator is a record of the locals    *)
(* of its frame.  One call of next() on a generator runs the whole stack   *)
(* of generators below it up to the next yield, so it is one step.         *)
(*                                                                         *)
(* A dataframe is [columns, dtypes, rows]; a row is a tuple of cells in    *)
(* column order.  Row labels (the index) are not modelled.                 *)
(***************************************************************************)
EXTENDS Integers, Sequences, FiniteSets, TLC

VARIABLES
    sdf,        \* the StreamingDataFrame the generators walk through
    buffer,     \* read_str: the position of the StringIO the lambda closes over
    passes,     \* the generators created by iter(sdf), with what each yielded
    call,       \* the terminal method being run on sdf (head, tail, ...)
    rng         \* numpy's generator: what its next use by df.sample will draw

vars == <<sdf, buffer, passes, call, rng>>

----------------------------------------------------------------------------
(* Bounds of the model.                                                    *)

MaxRows == 3        \* rows of an in-memory table
MaxChunksize == 3   \* chunksize given to read_df / read_str
MaxChunks == 3      \* chunks of a table built on a user's iter_creation
MaxLines == 3       \* data lines of a text given to read_str
ReadBlock == 2      \* lines the csv parser takes from its buffer in one read
MaxN == 4           \* n given to head and tail

\* is_stable(do_check=True) zips two generators of the same table.
NPass == 2

Min(a, b) == IF a <= b THEN a ELSE b
Max(a, b) == IF a >= b THEN a ELSE b

\* The sequences over S of length lo..hi.
SeqsOf(S, lo, hi) == UNION {[1..n -> S] : n \in lo..hi}

RECURSIVE Flatten(_)
Flatten(ss) == IF ss = <<>> THEN <<>> ELSE Head(ss) \o Flatten(Tail(ss))

----------------------------------------------------------------------------
(* Dataframes.                                                             *)

\* The missing value of pandas.
NaN == -1

\* index is "" for the default index and the name of the key column for the
\* result of a groupby with as_index=True (the column stays in rows).
DataFrame(columns, dtypes, rows) ==
    [columns |-> columns, dtypes |-> dtypes, rows |-> rows, index |-> ""]

\* df.shape[0]
Shape0(df) == Len(df.rows)

\* df[i:end]: python's slice, rows i .. end-1 counted from 0.
Slice(df, i, end) == [df EXCEPT !.rows = SubSeq(df.rows, i + 1, end)]

\* df.copy(): a new object with the same content.
Copy(df) == df

\* pandas.concat(dfs, axis=0) of frames of one schema.
PandasConcat(dfs) ==
    [Head(dfs) EXCEPT !.rows = Flatten([k \in 1..Len(dfs) |-> dfs[k].rows])]

----------------------------------------------------------------------------
(* What next() on a generator gives: a chunk, StopIteration or an error.   *)

NoDF == DataFrame(<<>>, <<>>, <<>>)

Yield(df) == [kind |-> "chunk", df |-> df, exc |-> "", msg |-> "", row |-> 0]
StopIteration == [kind |-> "stop", df |-> NoDF, exc |-> "", msg |-> "", row |-> 0]
Raise(exc, msg, row) ==
    [kind |-> "error", df |-> NoDF, exc |-> exc, msg |-> msg, row |-> row]

----------------------------------------------------------------------------
(* read_df: local_iterator, a generator whose cursor i is its own local.   *)

ReadDf(df, chunksize, check_schema) ==
    [tag |-> "read_df", df |-> df, chunksize |-> chunksize,
     check_schema |-> check_schema, stable |-> TRUE]

\* A mutant of LocalIteratorNext: the range iterator is created once, outside
\* local_iterator, so that every generator moves the same cursor.
LocalIteratorShared(e, g, buf) ==
    LET size == Shape0(e.df) IN
    IF buf < size
    THEN [g |-> g, buf |-> buf + e.chunksize,
          res |-> Yield(Copy(Slice(e.df, buf, Min(size, buf + e.chunksize))))]
    ELSE [g |-> g, buf |-> buf, res |-> StopIteration]

\* A mutant of LocalIteratorNext: the range stops before a last chunk that
\* would be shorter than chunksize (range(0, size - chunksize + 1, chunksize)).
LocalIteratorFullChunks(e, g, buf) ==
    LET size == Shape0(e.df) IN
    IF e.chunksize > 0 /\ g.i + e.chunksize <= size
    THEN [g |-> [g EXCEPT !.i = g.i + e.chunksize], buf |-> buf,
          res |-> Yield(Copy(Slice(e.df, g.i, g.i + e.chunksize)))]
    ELSE [g |-> g, buf |-> buf, res |-> StopIteration]

\* for i in range(0, size, chunksize): end = min(size, i + chunksize);
\*     yield df[i:end].copy()
\* range() raises ValueError for a step of 0 and is empty for a negative one.
LocalIteratorNext(e, g, buf) ==
    LET size == Shape0(e.df) IN
    IF e.chunksize = 0
    THEN [g |-> g, buf |-> buf, res |-> Raise("ValueError", "range", 0)]
    ELSE IF e.chunksize > 0 /\ g.i < size
    THEN [g |-> [g EXCEPT !.i = g.i + e.chunksize], buf |-> buf,
          res |-> Yield(Copy(Slice(e.df, g.i, Min(size, g.i + e.chunksize))))]
    ELSE [g |-> g, buf |-> buf, res |-> StopIteration]

----------------------------------------------------------------------------
(* read_str: buffer = StringIO(text) is created once, and every call of    *)
(* the lambda hands that same buffer to pandas.read_csv.  The text is a    *)
(* header line followed by data lines, every line a tuple of tokens.  The  *)
(* parser takes lines from the buffer ReadBlock at a time, the first time  *)
(* when it is created (it reads the header then).                          *)

ReadStr(text, chunksize, check_schema) ==
    [tag |-> "read_str", text |-> text, chunksize |-> chunksize,
     check_schema |-> check_schema, stable |-> TRUE]

Digits == {"3", "4", "5", "7"}

\* The type read_csv infers for the cells of one column.
InferDtype(cells) ==
    IF \A k \in 1..Len(cells) : cells[k] \in Digits THEN "int64" ELSE "object"

\* The integer read_csv parses from a cell of digits.
ParseInt(cell) ==
    CASE cell = "3" -> 3 [] cell = "4" -> 4 [] cell = "5" -> 5 [] cell = "7" -> 7

\* The dataframe read_csv makes of data lines under a header: the cells of a
\* column of integers are parsed, the others stay strings.
ParsedFrame(header, lines) ==
    LET dtypes == [c \in 1..Len(header) |->
                      InferDtype([k \in 1..Len(lines) |-> lines[k][c]])]
    IN  DataFrame(header, dtypes,
                  [k \in 1..Len(lines) |-> [c \in 1..Len(header) |->
                      IF dtypes[c] = "int64" THEN ParseInt(lines[k][c])
                      ELSE lines[k][c]]])

\* The lines one or more reads take from the buffer at position buf when the
\* parser holds have lines and needs want of them.
LinesRead(text, buf, have, want) ==
    LET missing == Max(0, want - have)
        blocks  == (missing + ReadBlock - 1) \div ReadBlock
    IN  Min(blocks * ReadBlock, Len(text) - buf)

\* pandas.read_csv(buffer, iterator=True, chunksize=...): the chunksize is
\* validated, then the parser reads the header; a buffer at its end has no
\* columns to parse.
ReadCsvCreate(e, buf) ==
    LET n == LinesRead(e.text, buf, 0, 1) IN
    IF e.chunksize < 1
    THEN [g |-> <<>>, buf |-> buf,
          res |-> Raise("ValueError", "'chunksize' must be an integer >=1", 0)]
    ELSE IF n = 0
    THEN [g |-> <<>>, buf |-> buf,
          res |-> Raise("EmptyDataError", "No columns to parse from file", 0)]
    ELSE [g |-> [header |-> e.text[buf + 1],
                 lines |-> SubSeq(e.text, buf + 2, buf + n)],
          buf |-> buf + n, res |-> StopIteration]

\* next() of the parser: the next chunksize data lines.
ReadCsvNext(e, g, buf) ==
    LET n     == LinesRead(e.text, buf, Len(g.lines), e.chunksize)
        lines == g.lines \o SubSeq(e.text, buf + 1, buf + n)
        take  == Min(e.chunksize, Len(lines))
    IN  IF take = 0
        THEN [g |-> g, buf |-> buf + n, res |-> StopIteration]
        ELSE [g |-> [g EXCEPT !.lines = SubSeq(lines, take + 1, Len(lines))],
              buf |-> buf + n,
              res |-> Yield(ParsedFrame(g.header, SubSeq(lines, 1, take)))]

----------------------------------------------------------------------------
(* StreamingDataFrame(iter_creation) on a function of the user's that      *)
(* returns a fresh iterator on a list of dataframes.                       *)

FromChunks(chunks, check_schema) ==
    [tag |-> "iter_creation", chunks |-> chunks,
     check_schema |-> check_schema, stable |-> TRUE]

ListIteratorNext(e, g, buf) ==
    IF g.k < Len(e.chunks)
    THEN [g |-> [g EXCEPT !.k = g.k + 1], buf |-> buf,
          res |-> Yield(e.chunks[g.k + 1])]
    ELSE [g |-> g, buf |-> buf, res |-> StopIteration]

----------------------------------------------------------------------------
(* The operations of pandas the transformations apply to each chunk.  The  *)
(* arguments are the caller's; the model fixes one instance of each.       *)

RECURSIVE SumSeq(_)
SumSeq(s) == IF s = <<>> THEN 0 ELSE Head(s) + SumSeq(Tail(s))

RECURSIVE SortedSeq(_)
SortedSeq(S) ==
    IF S = {} THEN <<>>
    ELSE LET m == CHOOSE x \in S : \A y \in S : x <= y
         IN  <<m>> \o SortedSeq(S \ {m})

\* The position of column name in df.
ColIndex(df, name) == CHOOSE c \in 1..Len(df.columns) : df.columns[c] = name

Column(df, c) == [k \in 1..Len(df.rows) |-> df.rows[k][c]]

\* A column of integers that holds a missing value becomes a column of floats.
Upcast(dtypes, rows) ==
    [c \in 1..Len(dtypes) |->
        IF \E k \in 1..Len(rows) : rows[k][c] = NaN THEN "float64" ELSE dtypes[c]]

MapCells(df, F(_)) ==
    [k \in 1..Len(df.rows) |-> [c \in 1..Len(df.columns) |-> F(df.rows[k][c])]]

\* df.where(df < 7): the other cells become NaN.
Where(df) ==
    LET rows == MapCells(df, LAMBDA v : IF v < 7 THEN v ELSE NaN)
    IN  [df EXCEPT !.rows = rows, !.dtypes = Upcast(df.dtypes, rows)]

\* df.applymap(lambda v: v + 1)
Applymap(df) ==
    [df EXCEPT !.rows = MapCells(df, LAMBDA v : IF v = NaN THEN NaN ELSE v + 1)]

\* df.apply(lambda c: c + c.iloc[0]): a function of the whole column of the chunk.
Apply(df) ==
    [df EXCEPT !.rows =
        [k \in 1..Len(df.rows) |-> [c \in 1..Len(df.columns) |->
            IF df.rows[k][c] = NaN \/ df.rows[1][c] = NaN THEN NaN
            ELSE df.rows[k][c] + df.rows[1][c]]]]

\* df[cols]
GetItem(df, cols) ==
    LET ix == [j \in 1..Len(cols) |-> ColIndex(df, cols[j])]
    IN  [df EXCEPT !.columns = cols,
                   !.dtypes = [j \in 1..Len(cols) |-> df.dtypes[ix[j]]],
                   !.rows = [k \in 1..Len(df.rows) |->
                               [j \in 1..Len(cols) |-> df.rows[k][ix[j]]]]]

\* dfc = df.copy(); dfc[col] = value
AddColumn(df, col, value) ==
    [df EXCEPT !.columns = Append(@, col), !.dtypes = Append(@, "int64"),
               !.rows = [k \in 1..Len(df.rows) |-> Append(df.rows[k], value)]]

\* df.fillna(value=0)
Fillna(df) ==
    [df EXCEPT !.rows = MapCells(df, LAMBDA v : IF v = NaN THEN 0 ELSE v)]

\* The keys of the groups of df by its column c, sorted; a missing key has no group.
GroupKeys(df, c) == SortedSeq({df.rows[k][c] : k \in 1..Len(df.rows)} \ {NaN})

\* df.groupby(by, as_index=...).sum(): one row per key, the keys sorted, the
\* other columns summed over the rows of the key (missing values skipped).
GroupBySum(df, by, as_index) ==
    LET b    == ColIndex(df, by)
        keys == GroupKeys(df, b)
        grp(key) == SelectSeq(df.rows, LAMBDA r : r[b] = key)
        tot(key, c) == SumSeq(SelectSeq(Column([rows |-> grp(key)], c),
                                        LAMBDA v : v # NaN))
    IN  [columns |-> df.columns,
         dtypes  |-> df.dtypes,
         rows    |-> [j \in 1..Len(keys) |-> [c \in 1..Len(df.columns) |->
                        IF c = b THEN keys[j] ELSE tot(keys[j], c)]],
         index   |-> IF as_index THEN by ELSE ""]

\* pandas.concat(dfs, sort=False) of frames of the same columns.
ConcatRows(dfs) == Flatten([k \in 1..Len(dfs) |-> dfs[k].rows])

\* df1.merge(df2, how=how) on the first column, the one the frames share:
\* inner and left keep the order of df1, right keeps the order of df2, outer
\* sorts by key.  A row without a match gets NaN in the columns of the other
\* frame.
Merge(df1, df2, how) ==
    LET n1 == Len(df1.columns) - 1
        n2 == Len(df2.columns) - 1
        nans(n) == [c \in 1..n |-> NaN]
        match2(r1) == SelectSeq(df2.rows, LAMBDA r2 : r2[1] = r1[1])
        match1(r2) == SelectSeq(df1.rows, LAMBDA r1 : r1[1] = r2[1])
        join(r1, r2) == r1 \o Tail(r2)
        inner == Flatten([i \in 1..Len(df1.rows) |->
                    LET m == match2(df1.rows[i])
                    IN  [j \in 1..Len(m) |-> join(df1.rows[i], m[j])]])
        left  == Flatten([i \in 1..Len(df1.rows) |->
                    LET m == match2(df1.rows[i])
                    IN  IF m = <<>> THEN <<df1.rows[i] \o nans(n2)>>
                        ELSE [j \in 1..Len(m) |-> join(df1.rows[i], m[j])]])
        right == Flatten([j \in 1..Len(df2.rows) |->
                    LET m == match1(df2.rows[j])
                    IN  IF m = <<>>
                        THEN <<<<df2.rows[j][1]>> \o nans(n1) \o Tail(df2.rows[j])>>
                        ELSE [i \in 1..Len(m) |-> join(m[i], df2.rows[j])]])
        only2 == SelectSeq(right, LAMBDA r : match1(r) = <<>>)
        all   == left \o only2
        keys  == SortedSeq({all[k][1] : k \in 1..Len(all)})
        outer == Flatten([k \in 1..Len(keys) |->
                    SelectSeq(all, LAMBDA r : r[1] = keys[k])])
        rows  == CASE how = "inner" -> inner
                   [] how = "left" -> left
                   [] how = "right" -> right
                   [] OTHER -> outer
    IN  [columns |-> df1.columns \o Tail(df2.columns),
         dtypes  |-> Upcast(df1.dtypes \o Tail(df2.dtypes), rows),
         rows    |-> rows,
         index   |-> ""]

----------------------------------------------------------------------------
(* The transformations: each returns                                       *)
(*   StreamingDataFrame(lambda: ..., **self.get_kwargs())                  *)
(* and get_kwargs() is dict(check_schema=self.check_schema), so the new    *)
(* table has the parent's check_schema and the constructor's stable=True.  *)

Transform(tag, parent) ==
    [tag |-> tag, parent |-> parent, check_schema |-> parent.check_schema,
     stable |-> TRUE]

GetItemOf(parent, cols) ==
    [tag |-> "getitem", parent |-> parent, cols |-> cols,
     check_schema |-> parent.check_schema, stable |-> TRUE]

AddColumnOf(parent, col, value) ==
    [tag |-> "add_column", parent |-> parent, col |-> col, value |-> value,
     check_schema |-> parent.check_schema, stable |-> TRUE]

GroupbyStreaming(parent, by, strategy, as_index) ==
    [tag |-> "groupby_streaming", parent |-> parent, by |-> by,
     strategy |-> strategy, as_index |-> as_index,
     check_schema |-> parent.check_schema, stable |-> TRUE]

MergeOf(parent, right, how) ==
    [tag |-> "merge", parent |-> parent, right |-> right, how |-> how,
     check_schema |-> parent.check_schema, stable |-> TRUE]

\* sample(frac=1/2) without cache: a map of df.sample over the parent; the
\* table is told not to be stable.
SampleOf(parent) ==
    [tag |-> "sample", parent |-> parent, check_schema |-> parent.check_schema,
     stable |-> FALSE]

\* Whether a walk through table e calls df.sample.
RECURSIVE Randomized(_)
Randomized(e) ==
    \/ e.tag = "sample"
    \/ ("parent" \in DOMAIN e /\ Randomized(e.parent))

\* chunksize=1000 in the call of reservoir_iterate.
ReservoirChunksize == 1000

\* What _reservoir_sampling returns: StreamingDataFrame(lambda:
\* reservoir_iterate(sdf=self, indices=indices, chunksize=1000)), built with
\* the defaults of the constructor.
ReservoirOf(parent, indices) ==
    [tag |-> "reservoir", parent |-> parent, indices |-> indices,
     chunksize |-> ReservoirChunksize, check_schema |-> TRUE, stable |-> TRUE]

\* The table on reservoir_iterate(sdf=parent, indices, chunksize).
ReservoirIterateOf(parent, indices, chunksize) ==
    [ReservoirOf(parent, indices) EXCEPT !.chunksize = chunksize]

\* concat(others, axis): others is a list of tables (a dataframe of others
\* becomes read_df(obj, obj.shape[0])).
ConcatOf(parent, others, axis) ==
    [tag |-> "concat", parent |-> parent, others |-> others, axis |-> axis,
     check_schema |-> parent.check_schema, stable |-> TRUE]

\* The outcomes of a draw: the orders in which df.sample may take the rows of
\* a chunk.
Draws ==
    {d \in [1..MaxChunksize -> 1..MaxChunksize] :
        \A a, b \in 1..MaxChunksize : a # b => d[a] # d[b]}

FirstDraw == [k \in 1..MaxChunksize |-> k]

\* round(x / 2) of Python: to the nearest, a half to the even one.
RoundHalf(x) ==
    IF x % 2 = 0 THEN x \div 2
    ELSE IF ((x - 1) \div 2) % 2 = 0 THEN (x - 1) \div 2 ELSE (x + 1) \div 2

\* df.sample(frac=1/2) under draw d: round(len / 2) rows of df, the first ones
\* in the order d gives the rows of df.
SampleDf(df, d) ==
    LET order == SelectSeq(d, LAMBDA k : k <= Shape0(df))
    IN  [df EXCEPT !.rows = [j \in 1..RoundHalf(Shape0(df)) |-> df.rows[order[j]]]]

\* What a transformation of one chunk at a time does to chunk df.  fillna
\* works in place by default, on the chunk the parent yielded.
ChunkOp(e, df) ==
    CASE e.tag = "where" -> Where(df)
      [] e.tag = "apply" -> Apply(df)
      [] e.tag = "applymap" -> Applymap(df)
      [] e.tag = "getitem" -> GetItem(df, e.cols)
      [] e.tag = "add_column" -> AddColumn(Copy(df), e.col, e.value)
      [] e.tag = "fillna" -> Fillna(df)
      [] e.tag = "sample" -> SampleDf(df, rng)

----------------------------------------------------------------------------
(* __iter__: the generator every walk through a table goes by.             *)

\* iter(sdf): a generator object whose body has not started.
NewIter == [pc |-> "new", sch |-> <<>>, rows |-> 0, iters |-> <<>>]

\* self.iter_creation(): res is an error when the call raises.  map(f, self)
\* and the generator functions of the transformations call iter(self) on the
\* parent, which starts nothing.
IterCreation(e, buf) ==
    CASE e.tag = "read_df" ->
            [g |-> [i |-> 0], buf |-> buf, res |-> StopIteration]
      [] e.tag = "read_str" -> ReadCsvCreate(e, buf)
      [] e.tag = "iter_creation" ->
            [g |-> [k |-> 0], buf |-> buf, res |-> StopIteration]
      [] e.tag = "groupby_streaming" ->
            [g |-> [src |-> NewIter, agg |-> <<>>], buf |-> buf,
             res |-> StopIteration]
      [] e.tag = "concat" /\ e.axis = 0 ->
            [g |-> [src |-> NewIter, sch |-> <<>>, k |-> 0, osrc |-> NewIter,
                    check |-> TRUE, i |-> 0],
             buf |-> buf, res |-> StopIteration]
      [] e.tag = "concat" /\ e.axis = 1 ->
            [g |-> [srcs |-> [j \in 1..(1 + Len(e.others)) |-> NewIter]],
             buf |-> buf, res |-> StopIteration]
      [] e.tag = "reservoir" ->
            [g |-> [src |-> NewIter, i |-> -1, ir |-> 0, cur |-> <<>>,
                    seen |-> 0, buffer |-> <<>>, pc |-> "loop"],
             buf |-> buf, res |-> StopIteration]
      [] e.tag = "merge" ->
            [g |-> [src |-> NewIter, has1 |-> FALSE, df1 |-> NoDF,
                    src2 |-> NewIter],
             buf |-> buf, res |-> StopIteration]
      [] OTHER -> [g |-> [src |-> NewIter], buf |-> buf, res |-> StopIteration]

\* A mutant of SchemaCheck: only the names are compared.
SchemaCheckNamesOnly(check_schema, sch, rows, it) ==
    IF sch # <<>> /\ check_schema /\ it.columns # sch[1]
    THEN Raise("StreamingDataFrameSchemaError", "names", rows)
    ELSE Yield(it)

\* A mutant of SchemaCheck: the types are compared before the names.
SchemaCheckTypesFirst(check_schema, sch, rows, it) ==
    IF sch # <<>> /\ check_schema /\ it.dtypes # sch[2]
    THEN Raise("StreamingDataFrameSchemaError", "types", rows)
    ELSE IF sch # <<>> /\ check_schema /\ it.columns # sch[1]
    THEN Raise("StreamingDataFrameSchemaError", "names", rows)
    ELSE Yield(it)

\* The body of the loop of __iter__ on chunk it: the names are compared first.
SchemaCheck(check_schema, sch, rows, it) ==
    IF sch # <<>> /\ check_schema /\ it.columns # sch[1]
    THEN Raise("StreamingDataFrameSchemaError", "names", rows)
    ELSE IF sch # <<>> /\ check_schema /\ it.dtypes # sch[2]
    THEN Raise("StreamingDataFrameSchemaError", "types", rows)
    ELSE Yield(it)

RECURSIVE IterNext(_, _, _), ItersNext(_, _, _), IteratorMergeNext(_, _, _)
RECURSIVE IteratorMergeRightOnce(_, _, _)
RECURSIVE IteratorConcatNext(_, _, _), ZipNext(_, _, _, _, _)
RECURSIVE ReservoirIterateNext(_, _, _)

\* next() on a generator fr of __iter__ of table e.  A generator that returned
\* or raised is exhausted.
IterNext(e, fr, buf) ==
    IF fr.pc = "end" THEN [fr |-> fr, buf |-> buf, res |-> StopIteration]
    ELSE
    LET c == IF fr.pc = "new" THEN IterCreation(e, buf)
             ELSE [g |-> fr.iters, buf |-> buf, res |-> StopIteration]
    IN  IF c.res.kind = "error"
        THEN [fr |-> [fr EXCEPT !.pc = "end"], buf |-> c.buf, res |-> c.res]
        ELSE
        LET n == ItersNext(e, c.g, c.buf) IN
        IF n.res.kind # "chunk"
        THEN [fr |-> [fr EXCEPT !.pc = "end", !.iters = n.g],
              buf |-> n.buf, res |-> n.res]
        ELSE
        LET it  == n.res.df
            chk == SchemaCheck(e.check_schema, fr.sch, fr.rows, it)
            sch == IF fr.sch = <<>> THEN <<it.columns, it.dtypes>> ELSE fr.sch
        IN  IF chk.kind = "error"
            THEN [fr |-> [fr EXCEPT !.pc = "end", !.iters = n.g, !.sch = sch],
                  buf |-> n.buf, res |-> chk]
            ELSE [fr |-> [pc |-> "run", sch |-> sch,
                          rows |-> fr.rows + Shape0(it), iters |-> n.g],
                  buf |-> n.buf, res |-> chk]

\* next() on map(f, self) and on the generators iterate_cols, iterate_cst,
\* iterate_na: the next chunk of the parent, transformed.
MapNext(e, g, r) ==
    IF r.res.kind # "chunk"
    THEN [g |-> [g EXCEPT !.src = r.fr], buf |-> r.buf, res |-> r.res]
    ELSE [g |-> [g EXCEPT !.src = r.fr], buf |-> r.buf,
          res |-> Yield(ChunkOp(e, r.res.df))]

\* A mutant of IterateCumNext: the running state is the last chunk's aggregate.
IterateCumForgets(e, g, r) ==
    IF r.res.kind # "chunk"
    THEN [g |-> [g EXCEPT !.src = r.fr], buf |-> r.buf, res |-> r.res]
    ELSE LET gragg == GroupBySum(r.res.df, e.by, FALSE)
         IN  [g |-> [src |-> r.fr, agg |-> <<gragg>>], buf |-> r.buf,
              res |-> Yield(GroupBySum(gragg, e.by, e.as_index))]

\* A mutant of IterateCumNext: the chunk's aggregate enters the running state
\* twice (agg = pandas.concat([lagg, gragg])).
IterateCumTwice(e, g, r) ==
    IF r.res.kind # "chunk"
    THEN [g |-> [g EXCEPT !.src = r.fr], buf |-> r.buf, res |-> r.res]
    ELSE LET gragg == GroupBySum(r.res.df, e.by, FALSE)
             lagg  == IF g.agg = <<>> THEN gragg
                      ELSE [gragg EXCEPT !.rows = ConcatRows(<<g.agg[1], gragg>>)]
         IN  [g |-> [src |-> r.fr,
                     agg |-> <<[gragg EXCEPT !.rows = ConcatRows(<<lagg, gragg>>)]>>],
              buf |-> r.buf,
              res |-> Yield(GroupBySum(lagg, e.by, e.as_index))]

\* iterate_cum on the parent's next chunk (r): agg is None (<<>>) or the
\* concatenation of the aggregates of the chunks seen, kept as <<agg>>.
IterateCumNext(e, g, r) ==
    IF r.res.kind # "chunk"
    THEN [g |-> [g EXCEPT !.src = r.fr], buf |-> r.buf, res |-> r.res]
    ELSE LET gragg == GroupBySum(r.res.df, e.by, FALSE)
             lagg  == IF g.agg = <<>> THEN gragg
                      ELSE [gragg EXCEPT !.rows = ConcatRows(<<g.agg[1], gragg>>)]
         IN  [g |-> [src |-> r.fr, agg |-> <<lagg>>], buf |-> r.buf,
              res |-> Yield(GroupBySum(lagg, e.by, e.as_index))]

\* A mutant of IterateStreamingNext: the aggregates of the chunks before are
\* kept and summed with the chunk's.
IterateStreamingKeeps(e, g, r) == IterateCumNext(e, g, r)

\* iterate_streaming on the parent's next chunk (r).
IterateStreamingNext(e, g, r) ==
    IF r.res.kind # "chunk"
    THEN [g |-> [g EXCEPT !.src = r.fr], buf |-> r.buf, res |-> r.res]
    ELSE LET gragg == GroupBySum(r.res.df, e.by, FALSE)
         IN  [g |-> [g EXCEPT !.src = r.fr], buf |-> r.buf,
              res |-> Yield(GroupBySum(gragg, e.by, e.as_index))]

\* A mutant of IteratorMergeNext: sdf2 is walked through by one generator,
\* created once, which the first df1 exhausts.
IteratorMergeRightOnce(e, g, buf) ==
    IF ~g.has1
    THEN LET r1 == IterNext(e.parent, g.src, buf) IN
         IF r1.res.kind # "chunk"
         THEN [g |-> [g EXCEPT !.src = r1.fr], buf |-> r1.buf, res |-> r1.res]
         ELSE IteratorMergeRightOnce(e, [g EXCEPT !.src = r1.fr, !.has1 = TRUE,
                                                  !.df1 = r1.res.df], r1.buf)
    ELSE LET r2 == IterNext(e.right, g.src2, buf) IN
         CASE r2.res.kind = "chunk" ->
                [g |-> [g EXCEPT !.src2 = r2.fr], buf |-> r2.buf,
                 res |-> Yield(Merge(g.df1, r2.res.df, e.how))]
           [] r2.res.kind = "stop" ->
                IteratorMergeRightOnce(e, [g EXCEPT !.has1 = FALSE,
                                                    !.src2 = r2.fr], r2.buf)
           [] OTHER ->
                [g |-> [g EXCEPT !.src2 = r2.fr], buf |-> r2.buf, res |-> r2.res]

\* iterator_merge: for df1 in sdf1: for df2 in sdf2: yield df1.merge(df2, **kw).
\* Every df1 starts a new generator on sdf2.
IteratorMergeNext(e, g, buf) ==
    IF ~g.has1
    THEN LET r1 == IterNext(e.parent, g.src, buf) IN
         IF r1.res.kind # "chunk"
         THEN [g |-> [g EXCEPT !.src = r1.fr], buf |-> r1.buf, res |-> r1.res]
         ELSE IteratorMergeNext(e, [src |-> r1.fr, has1 |-> TRUE,
                                    df1 |-> r1.res.df, src2 |-> NewIter], r1.buf)
    ELSE LET r2 == IterNext(e.right, g.src2, buf) IN
         CASE r2.res.kind = "chunk" ->
                [g |-> [g EXCEPT !.src2 = r2.fr], buf |-> r2.buf,
                 res |-> Yield(Merge(g.df1, r2.res.df, e.how))]
           [] r2.res.kind = "stop" ->
                IteratorMergeNext(e, [g EXCEPT !.has1 = FALSE, !.src2 = r2.fr],
                                  r2.buf)
           [] OTHER ->
                [g |-> [g EXCEPT !.src2 = r2.fr], buf |-> r2.buf, res |-> r2.res]

\* iterator_concat: the chunks of this (k = 0), then those of lothers[k]; the
\* first chunk of each of lothers is compared with the columns and the dtypes
\* of the first chunk of this, which are None (<<>>) when this has no chunk.
\* i is the index enumerate(obj) gives the chunk within obj; the message of
\* the ValueError is formatted with it ("Frame others[i] ..."), kept here as
\* the third field of the error.
IteratorConcatNext(e, g, buf) ==
    IF g.k = 0
    THEN LET r == IterNext(e.parent, g.src, buf) IN
         CASE r.res.kind = "chunk" ->
                [g |-> [g EXCEPT !.src = r.fr,
                                 !.sch = IF g.sch = <<>>
                                         THEN <<r.res.df.columns, r.res.df.dtypes>>
                                         ELSE g.sch],
                 buf |-> r.buf, res |-> r.res]
           [] r.res.kind = "stop" ->
                IteratorConcatNext(e, [g EXCEPT !.src = r.fr, !.k = 1], r.buf)
           [] OTHER ->
                [g |-> [g EXCEPT !.src = r.fr], buf |-> r.buf, res |-> r.res]
    ELSE IF g.k > Len(e.others)
    THEN [g |-> g, buf |-> buf, res |-> StopIteration]
    ELSE LET r == IterNext(e.others[g.k], g.osrc, buf) IN
         CASE r.res.kind = "chunk" ->
                [g |-> [g EXCEPT !.osrc = r.fr, !.check = FALSE, !.i = g.i + 1],
                 buf |-> r.buf,
                 res |-> IF ~g.check THEN r.res
                         ELSE IF g.sch = <<>>
                         THEN Raise("TypeError", "'NoneType' object is not iterable", 0)
                         ELSE IF r.res.df.columns # g.sch[1]
                         THEN Raise("ValueError", "names", g.i)
                         ELSE IF r.res.df.dtypes # g.sch[2]
                         THEN Raise("ValueError", "types", g.i)
                         ELSE r.res]
           [] r.res.kind = "stop" ->
                IteratorConcatNext(e, [g EXCEPT !.k = g.k + 1, !.osrc = NewIter,
                                                !.check = TRUE, !.i = 0], r.buf)
           [] OTHER ->
                [g |-> [g EXCEPT !.osrc = r.fr], buf |-> r.buf, res |-> r.res]

\* next() on zip(*cols): next() on the generator of each table in turn, up to
\* the first that is exhausted or raises.
ZipNext(tables, srcs, j, buf, dfs) ==
    IF j > Len(tables)
    THEN [srcs |-> srcs, buf |-> buf, dfs |-> dfs, res |-> Yield(NoDF)]
    ELSE LET r == IterNext(tables[j], srcs[j], buf) IN
         IF r.res.kind # "chunk"
         THEN [srcs |-> [srcs EXCEPT ![j] = r.fr], buf |-> r.buf, dfs |-> dfs,
               res |-> r.res]
         ELSE ZipNext(tables, [srcs EXCEPT ![j] = r.fr], j + 1, r.buf,
                      Append(dfs, r.res.df))

\* pandas.concat(dfs, axis=1) of frames of the same number of rows and the
\* same index.
ConcatColumns(dfs) ==
    [columns |-> Flatten([k \in 1..Len(dfs) |-> dfs[k].columns]),
     dtypes  |-> Flatten([k \in 1..Len(dfs) |-> dfs[k].dtypes]),
     rows    |-> [i \in 1..Shape0(dfs[1]) |->
                    Flatten([k \in 1..Len(dfs) |-> dfs[k].rows[i]])],
     index   |-> ""]

\* A mutant of IteratehNext: a group of chunks of different numbers of rows
\* is passed over, its first chunk yielded alone.
IteratehKeepsFirst(e, g, buf) ==
    LET z == ZipNext(<<e.parent>> \o e.others, g.srcs, 1, buf, <<>>) IN
    [g |-> [srcs |-> z.srcs], buf |-> z.buf,
     res |-> IF z.res.kind # "chunk" THEN z.res
             ELSE IF \E k \in 1..Len(z.dfs) : Shape0(z.dfs[k]) # Shape0(z.dfs[1])
             THEN Yield(z.dfs[1])
             ELSE Yield(ConcatColumns(z.dfs))]

\* iterateh: for dfs in zip(*cols): the chunks must have as many rows.
IteratehNext(e, g, buf) ==
    LET z == ZipNext(<<e.parent>> \o e.others, g.srcs, 1, buf, <<>>) IN
    [g |-> [srcs |-> z.srcs], buf |-> z.buf,
     res |-> IF z.res.kind # "chunk" THEN z.res
             ELSE IF \E k \in 1..Len(z.dfs) : Shape0(z.dfs[k]) # Shape0(z.dfs[1])
             THEN Raise("RuntimeError", "different size or chunksize", 0)
             ELSE Yield(ConcatColumns(z.dfs))]

\* pandas.DataFrame(buffer) of a list of the pairs (label, row) iterrows
\* gives: a column of the labels and a column of the rows.
FrameOfPairs(pairs) ==
    [columns |-> <<"0", "1">>, dtypes |-> <<"int64", "object">>, rows |-> pairs,
     index |-> ""]

\* A mutant of ReservoirIterateNext: the rows left in buffer after the loop
\* are not yielded.
RECURSIVE ReservoirIterateNoRest(_, _, _)
ReservoirIterateNoRest(e, g, buf) ==
    IF g.cur # <<>> /\ g.ir < Shape0(g.cur[1])
    THEN LET hit == <<g.i, g.ir>> \in e.indices
             b   == IF hit THEN Append(g.buffer, <<g.seen, g.cur[1].rows[g.ir + 1]>>)
                    ELSE g.buffer
             g2  == [g EXCEPT !.ir = g.ir + 1, !.seen = g.seen + 1]
         IN  IF hit /\ Len(b) >= e.chunksize
             THEN [g |-> [g2 EXCEPT !.buffer = <<>>], buf |-> buf,
                   res |-> Yield(FrameOfPairs(b))]
             ELSE ReservoirIterateNoRest(e, [g2 EXCEPT !.buffer = b], buf)
    ELSE LET r == IterNext(e.parent, g.src, buf) IN
         IF r.res.kind = "chunk"
         THEN ReservoirIterateNoRest(e, [g EXCEPT !.src = r.fr, !.i = g.i + 1,
                                                 !.ir = 0, !.cur = <<r.res.df>>],
                                     r.buf)
         ELSE [g |-> [g EXCEPT !.src = r.fr, !.cur = <<>>], buf |-> r.buf,
               res |-> r.res]

\* reservoir_iterate: walks through the parent again, chunk i and row ir, and
\* keeps the rows whose (i, ir) is in indices; yields them by chunksize and
\* the rest after the loop.  cur is the chunk at hand (<<df>>); the tables of
\* the model have the default index, so the label of a row is the number of
\* rows before it (seen).
ReservoirIterateNext(e, g, buf) ==
    IF g.pc = "end" THEN [g |-> g, buf |-> buf, res |-> StopIteration]
    ELSE IF g.cur # <<>> /\ g.ir < Shape0(g.cur[1])
    THEN LET hit == <<g.i, g.ir>> \in e.indices
             b   == IF hit THEN Append(g.buffer, <<g.seen, g.cur[1].rows[g.ir + 1]>>)
                    ELSE g.buffer
             g2  == [g EXCEPT !.ir = g.ir + 1, !.seen = g.seen + 1]
         IN  IF hit /\ Len(b) >= e.chunksize
             THEN [g |-> [g2 EXCEPT !.buffer = <<>>], buf |-> buf,
                   res |-> Yield(FrameOfPairs(b))]
             ELSE ReservoirIterateNext(e, [g2 EXCEPT !.buffer = b], buf)
    ELSE LET r == IterNext(e.parent, g.src, buf) IN
         CASE r.res.kind = "chunk" ->
                ReservoirIterateNext(e, [g EXCEPT !.src = r.fr, !.i = g.i + 1,
                                                  !.ir = 0, !.cur = <<r.res.df>>],
                                     r.buf)
           [] r.res.kind = "stop" /\ g.buffer # <<>> ->
                [g |-> [g EXCEPT !.src = r.fr, !.pc = "end", !.cur = <<>>],
                 buf |-> r.buf, res |-> Yield(FrameOfPairs(g.buffer))]
           [] OTHER ->
                [g |-> [g EXCEPT !.src = r.fr, !.cur = <<>>], buf |-> r.buf,
                 res |-> r.res]

\* next(iters)
ItersNext(e, g, buf) ==
    CASE e.tag = "read_df" -> LocalIteratorNext(e, g, buf)
      [] e.tag = "read_str" -> ReadCsvNext(e, g, buf)
      [] e.tag = "iter_creation" -> ListIteratorNext(e, g, buf)
      [] e.tag = "merge" -> IteratorMergeNext(e, g, buf)
      [] e.tag = "reservoir" -> ReservoirIterateNext(e, g, buf)
      [] e.tag = "concat" /\ e.axis = 0 -> IteratorConcatNext(e, g, buf)
      [] e.tag = "concat" /\ e.axis = 1 -> IteratehNext(e, g, buf)
      [] e.tag = "groupby_streaming" /\ e.strategy = "cum" ->
            IterateCumNext(e, g, IterNext(e.parent, g.src, buf))
      [] e.tag = "groupby_streaming" /\ e.strategy = "streaming" ->
            IterateStreamingNext(e, g, IterNext(e.parent, g.src, buf))
      [] OTHER -> MapNext(e, g, IterNext(e.parent, g.src, buf))

----------------------------------------------------------------------------
(* The consumers of the model: NPass generators on sdf, pulled in any      *)
(* order (as zip(self, self) does in is_stable), each possibly given up    *)
(* before its end.                                                         *)

\* after: the generators that had ended when this one was created.
IdlePass == [st |-> "idle", fr |-> NewIter, out |-> <<>>, err |-> StopIteration,
             after |-> {}]

Ended(p) == passes[p].st \in {"done", "error", "closed"}
NoCall == [fn |-> "none"]

\* iter(sdf): generators are numbered in the order of their creation.
StartPass(p) ==
    /\ passes[p].st = "idle"
    /\ \A q \in 1..(p - 1) : passes[q].st # "idle"
    /\ passes' = [passes EXCEPT ![p].st = "open",
                                ![p].after = {q \in 1..NPass : Ended(q)}]
    /\ UNCHANGED <<sdf, buffer, call, rng>>

\* next() on generator p
Pull(p) ==
    /\ passes[p].st = "open"
    /\ \E r \in {IterNext(sdf, passes[p].fr, buffer)} :
        /\ buffer' = r.buf
        /\ passes' = [passes EXCEPT
              ![p].fr = r.fr,
              ![p].st = CASE r.res.kind = "chunk" -> "open"
                          [] r.res.kind = "stop" -> "done"
                          [] OTHER -> "error",
              ![p].out = IF r.res.kind = "chunk" THEN Append(@, r.res.df) ELSE @,
              ![p].err = r.res]
    /\ rng' \in (IF Randomized(sdf) THEN Draws ELSE {rng})
    /\ UNCHANGED <<sdf, call>>

\* The consumer drops generator p before its end (a break in a for loop).
Close(p) ==
    /\ passes[p].st = "open"
    /\ passes' = [passes EXCEPT ![p].st = "closed", ![p].fr.pc = "end"]
    /\ UNCHANGED <<sdf, buffer, call, rng>>

----------------------------------------------------------------------------
(* The terminal methods.  Each walks through self with a for loop; a step  *)
(* of the model is one turn of the loop, the last one with what follows    *)
(* the loop.  A method runs on sdf or on the table sdf was derived from.   *)

Receivers == {sdf} \cup (IF "parent" \in DOMAIN sdf THEN {sdf.parent} ELSE {})

\* The locals of a method at the top of its loop; arg keeps the n it was given.
NewCall(fn, self, n) ==
    [fn |-> fn, self |-> self, arg |-> n, pc |-> "loop", fr |-> NewIter,
     n |-> n, st |-> <<>>, total |-> 0, ret |-> <<>>, err |-> StopIteration]

Return(c, value) == [c EXCEPT !.pc = "returned", !.ret = <<value>>]
RaiseIn(c, err) == [c EXCEPT !.pc = "raised", !.err = err]

\* df.head(n) and df.tail(n) for n >= 0.
DfHead(df, n) == [df EXCEPT !.rows = SubSeq(df.rows, 1, Min(n, Len(df.rows)))]
DfTail(df, n) ==
    [df EXCEPT !.rows = SubSeq(df.rows, Len(df.rows) - Min(n, Len(df.rows)) + 1,
                               Len(df.rows))]

\* Every method's turn of the loop starts with next() on its generator.
CallNext == IterNext(call.self, call.fr, buffer)

Calling(fn) == call.fn = fn /\ call.pc = "loop"

\* to_dataframe: pandas.concat(self, axis=0) takes every chunk, then
\* concatenates; it raises ValueError when there is none.
ToDataframeStart ==
    /\ call = NoCall
    /\ \E self \in Receivers : call' = NewCall("to_dataframe", self, 0)
    /\ UNCHANGED <<sdf, buffer, passes, rng>>

ToDataframeStep ==
    /\ Calling("to_dataframe")
    /\ \E r \in {CallNext} : \E c \in {[call EXCEPT !.fr = r.fr]} :
           /\ buffer' = r.buf
           /\ call' = CASE r.res.kind = "chunk" ->
                            [c EXCEPT !.st = Append(@, r.res.df)]
                        [] r.res.kind = "error" -> RaiseIn(c, r.res)
                        [] call.st = <<>> ->
                            RaiseIn(c, Raise("ValueError",
                                             "No objects to concatenate", 0))
                        [] OTHER -> Return(c, PandasConcat(call.st))
    /\ rng' \in (IF Randomized(call.self) THEN Draws ELSE {rng})
    /\ UNCHANGED <<sdf, passes>>

\* head, the body of the loop on chunk df:
\*     h = df.head(n=n); total += h.shape[0]; st.append(h)
\*     if total >= n: break
\*     n -= h.shape[0]
HeadTurn(c, df) ==
    LET h  == DfHead(df, c.n)
        c1 == [c EXCEPT !.total = @ + Shape0(h), !.st = Append(@, h)]
    IN  IF c1.total >= c.n THEN [c1 EXCEPT !.pc = "break"]
        ELSE [c1 EXCEPT !.n = @ - Shape0(h)]

\* head, after the loop.
HeadReturn(c) ==
    CASE Len(c.st) = 1 -> Return(c, c.st[1])
      [] Len(c.st) = 0 -> [c EXCEPT !.pc = "returned"]
      [] OTHER -> Return(c, PandasConcat(c.st))

\* break leaves the loop.
HeadAfterTurn(c) == IF c.pc = "break" THEN HeadReturn(c) ELSE c

HeadStart(n) ==
    /\ call = NoCall
    /\ \E self \in Receivers : call' = NewCall("head", self, n)
    /\ UNCHANGED <<sdf, buffer, passes, rng>>

HeadStep ==
    /\ Calling("head")
    /\ \E r \in {CallNext} : \E c \in {[call EXCEPT !.fr = r.fr]} :
           /\ buffer' = r.buf
           /\ call' = CASE r.res.kind = "chunk" ->
                            HeadAfterTurn(HeadTurn(c, r.res.df))
                        [] r.res.kind = "error" -> RaiseIn(c, r.res)
                        [] OTHER -> HeadReturn(c)
    /\ rng' \in (IF Randomized(call.self) THEN Draws ELSE {rng})
    /\ UNCHANGED <<sdf, passes>>

\* tail: for df in self: h = df.tail(n=n)
\*       return h
\* h is not bound when the loop had no turn.  st holds h.
TailStart(n) ==
    /\ call = NoCall
    /\ \E self \in Receivers : call' = NewCall("tail", self, n)
    /\ UNCHANGED <<sdf, buffer, passes, rng>>

TailStep ==
    /\ Calling("tail")
    /\ \E r \in {CallNext} : \E c \in {[call EXCEPT !.fr = r.fr]} :
           /\ buffer' = r.buf
           /\ call' = CASE r.res.kind = "chunk" ->
                            [c EXCEPT !.st = <<DfTail(r.res.df, c.n)>>,
                                      !.total = @ + 1]
                        [] r.res.kind = "error" -> RaiseIn(c, r.res)
                        [] call.st = <<>> ->
                            RaiseIn(c, Raise("UnboundLocalError", "h", 0))
                        [] OTHER -> Return(c, call.st[1])
    /\ rng' \in (IF Randomized(call.self) THEN Draws ELSE {rng})
    /\ UNCHANGED <<sdf, passes>>

\* groupby (in memory, the default aggregations):
\*     for df in self: agg.append(df.groupby(by, as_index=False).sum())
\*     conc = pandas.concat(agg, sort=False)
\*     return conc.groupby(by=by, **kwargs).sum()
\* st holds agg; by is the first column and kwargs is empty.
GroupbyStart ==
    /\ call = NoCall
    /\ \E self \in Receivers : call' = NewCall("groupby", self, 0)
    /\ UNCHANGED <<sdf, buffer, passes, rng>>

GroupbyStep ==
    /\ Calling("groupby")
    /\ \E r \in {CallNext} : \E c \in {[call EXCEPT !.fr = r.fr]} :
           /\ buffer' = r.buf
           /\ call' = CASE r.res.kind = "chunk" ->
                            [c EXCEPT !.st = Append(@,
                                GroupBySum(r.res.df, r.res.df.columns[1], FALSE))]
                        [] r.res.kind = "error" -> RaiseIn(c, r.res)
                        [] call.st = <<>> ->
                            RaiseIn(c, Raise("ValueError",
                                             "No objects to concatenate", 0))
                        [] OTHER ->
                            LET conc == PandasConcat(call.st)
                            IN  Return(c, GroupBySum(conc, conc.columns[1], TRUE))
    /\ rng' \in (IF Randomized(call.self) THEN Draws ELSE {rng})
    /\ UNCHANGED <<sdf, passes>>

\* to_csv(path_or_buf): target is "none" (a StringIO is made), "path" (the
\* file is opened by to_csv, close = True) or "buf" (the caller's stream).
\* open is whether the stream to_csv made or opened is open; text is what was
\* written, for each chunk whether with a header and its rows (the column of
\* the labels is left out).
CsvLocals(self, target) ==
    [fn |-> "to_csv", self |-> self, arg |-> 0, pc |-> "loop", fr |-> NewIter,
     n |-> 0, st |-> <<>>, total |-> 0, ret |-> <<>>, err |-> StopIteration,
     target |-> target, close |-> (target = "path"), open |-> (target # "buf"),
     header |-> TRUE, text |-> <<>>]

ToCsvStart(target) ==
    /\ call = NoCall
    /\ \E self \in Receivers : call' = CsvLocals(self, target)
    /\ UNCHANGED <<sdf, buffer, passes, rng>>

\* for df in self: df.to_csv(st, **kwargs); kwargs['header'] = False
\* and after the loop: if close: st.close(); the value of a StringIO is
\* returned, or path_or_buf.
ToCsvStep ==
    /\ Calling("to_csv")
    /\ \E r \in {CallNext} : \E c \in {[call EXCEPT !.fr = r.fr]} :
           /\ buffer' = r.buf
           /\ call' = CASE r.res.kind = "chunk" ->
                            [c EXCEPT !.text = Append(@, [header |-> call.header,
                                                          rows |-> r.res.df.rows]),
                                      !.header = FALSE]
                        [] r.res.kind = "error" -> RaiseIn(c, r.res)
                        [] OTHER ->
                            Return([c EXCEPT !.open = IF call.close THEN FALSE ELSE @],
                                   IF call.target = "none" THEN call.text
                                   ELSE call.target)
    /\ rng' \in (IF Randomized(call.self) THEN Draws ELSE {rng})
    /\ UNCHANGED <<sdf, passes>>

----------------------------------------------------------------------------
(* sample and _reservoir_sampling.  sample returns a table: the model      *)
(* makes it sdf, for the generators to walk through.                       *)

RandomGrid == 12    \* nrandom.random() draws x in {0/12, ..., 11/12}

\* The draws x, as the numerators j of j/RandomGrid, for which
\*     x * n < (seen - n)
\* holds, that is for which the row replaces one of the reservoir.
ReplacingDraws(seen, n) ==
    {j \in 0..(RandomGrid - 1) : j * n < (seen - n) * RandomGrid}

\* What numpy.random.randint(low, high) draws from: low <= k < high; it
\* raises ValueError when there is no such k.
Randint(low, high) == low..(high - 1)

\* The locals of sample and of _reservoir_sampling: args are the arguments
\* (n is <<>> when kwargs has no 'n', frac is whether it has 'frac'), total
\* is seen, i and ir are the indices of the two enumerate, cur the chunk at
\* hand, walked the table the loop walks through.
SampleLocals(self, walked, way, args) ==
    [fn |-> "sample", self |-> self, walked |-> walked, way |-> way,
     args |-> args, arg |-> args.n, pc |-> "loop", fr |-> NewIter, n |-> args.n,
     st |-> <<>>, total |-> 0, ret |-> <<>>, err |-> StopIteration,
     indices |-> <<>>, i |-> -1, ir |-> 0, cur |-> <<>>]

\* A mutant of SampleWay: _reservoir_sampling does not look at cache.
SampleWayAnyCache(reservoir, cache, n, frac) ==
    CASE (reservoir \/ n # <<>>) /\ frac -> "frac given"
      [] (reservoir \/ n # <<>>) /\ n = <<>> -> "no n"
      [] (reservoir \/ n # <<>>) -> "reservoir"
      [] cache -> "frac, cached"
      [] OTHER -> "frac"

\* The way sample takes through its tests, in their order: kwargs['n'] is
\* evaluated before _reservoir_sampling is entered, where cache is tested.
SampleWay(reservoir, cache, n, frac) ==
    CASE (reservoir \/ n # <<>>) /\ frac -> "frac given"
      [] (reservoir \/ n # <<>>) /\ n = <<>> -> "no n"
      [] (reservoir \/ n # <<>>) /\ ~cache -> "no cache"
      [] (reservoir \/ n # <<>>) -> "reservoir"
      [] cache -> "frac, cached"
      [] OTHER -> "frac"

\* sample(reservoir, cache, **kwargs) up to its first loop.
SampleStart(reservoir, cache, n, frac) ==
    /\ call = NoCall
    /\ \A p \in 1..NPass : passes[p].st = "idle"
    /\ reservoir \/ n # <<>> \/ frac
    /\ \E way \in {SampleWay(reservoir, cache, n, frac)} :
       \E args \in {[reservoir |-> reservoir, cache |-> cache, n |-> n,
                     frac |-> frac]} :
       \E c \in {SampleLocals(sdf, sdf, "reservoir", args)} :
        CASE way = "frac given" ->
                /\ call' = RaiseIn(c, Raise("ValueError",
                        "frac cannot be specified for reservoir sampling.", 0))
                /\ UNCHANGED <<sdf, rng>>
          [] way = "no n" ->
                /\ call' = RaiseIn(c, Raise("KeyError", "n", 0))
                /\ UNCHANGED <<sdf, rng>>
          [] way = "no cache" ->
                /\ call' = RaiseIn(c, Raise("ValueError",
                        "cache=False is not available for reservoir sampling.", 0))
                /\ UNCHANGED <<sdf, rng>>
          [] way = "reservoir" ->
                /\ call' = c
                /\ UNCHANGED <<sdf, rng>>
          [] way = "frac, cached" ->
                /\ call' = SampleLocals(sdf, SampleOf(sdf), "frac", args)
                /\ rng' \in Draws
                /\ UNCHANGED sdf
          [] OTHER ->
                /\ call' = Return(c, SampleOf(sdf))
                /\ sdf' = SampleOf(sdf)
                /\ rng' \in Draws
    /\ UNCHANGED <<buffer, passes>>

\* The loop on the chunks, for df in self: next() on the generator.
\*   _reservoir_sampling: the chunk is walked through row by row (SampleRow);
\*     after the last one indices = set(indices) and the table is returned.
\*   sample(frac, cache=True): sdf.to_df() of the sample without cache, then
\*     read_df(df, chunksize=df.shape[0]).
SampleStep ==
    /\ Calling("sample")
    /\ \E r \in {IterNext(call.walked, call.fr, buffer)} :
       \E c \in {[call EXCEPT !.fr = r.fr]} :
        /\ buffer' = r.buf
        /\ CASE r.res.kind = "error" ->
                  call' = RaiseIn(c, r.res) /\ UNCHANGED sdf
             [] r.res.kind = "chunk" /\ call.way = "reservoir" ->
                  /\ call' = [c EXCEPT !.i = c.i + 1, !.ir = 0,
                                       !.cur = <<r.res.df>>,
                                       !.pc = IF Shape0(r.res.df) > 0 THEN "rows"
                                              ELSE "loop"]
                  /\ UNCHANGED sdf
             [] r.res.kind = "chunk" ->
                  call' = [c EXCEPT !.st = Append(@, r.res.df)] /\ UNCHANGED sdf
             [] call.way = "reservoir" ->
                  \E t \in {ReservoirOf(call.self,
                                {call.indices[k] : k \in 1..Len(call.indices)})} :
                      call' = Return(c, t) /\ sdf' = t
             [] call.st = <<>> ->
                  /\ call' = RaiseIn(c, Raise("ValueError",
                                              "No objects to concatenate", 0))
                  /\ UNCHANGED sdf
             [] OTHER ->
                  \E t \in {ReadDf(PandasConcat(call.st),
                                    Shape0(PandasConcat(call.st)), TRUE)} :
                      call' = Return(c, t) /\ sdf' = t
    /\ rng' \in (IF call.way = "frac" THEN Draws ELSE {rng})
    /\ UNCHANGED passes

\* A mutant of SampleRow: the reservoir is taken as full one row early.
SampleRowFullEarly ==
    /\ call.fn = "sample" /\ call.pc = "rows"
    /\ \E c \in {[call EXCEPT !.total = call.total + 1, !.ir = call.ir + 1,
                               !.pc = IF call.ir + 1 < Shape0(call.cur[1])
                                      THEN "rows" ELSE "loop"]} :
        IF Len(call.indices) < call.n[1] - 1
        THEN call' = [c EXCEPT !.indices = Append(@, <<call.i, call.ir>>)]
        ELSE \E x \in 0..(RandomGrid - 1) :
                IF x \notin ReplacingDraws(c.total, call.n[1])
                THEN call' = c
                ELSE IF Randint(0, Len(call.indices) - 1) = {}
                THEN call' = RaiseIn(c, Raise("ValueError", "low >= high", 0))
                ELSE \E k \in Randint(0, Len(call.indices) - 1) :
                        call' = [c EXCEPT !.indices[k + 1] = <<call.i, call.ir>>]
    /\ UNCHANGED <<sdf, buffer, passes, rng>>

\* The body of the loop on the rows of a chunk:
\*     seen += 1
\*     if len(indices) < n: indices.append((i, ir))
\*     else:
\*         x = nrandom.random()
\*         if x * n < (seen - n):
\*             k = nrandom.randint(0, len(indices) - 1); indices[k] = (i, ir)
\* randint draws below its second argument and raises ValueError when there
\* is nothing to draw.
SampleRow ==
    /\ call.fn = "sample" /\ call.pc = "rows"
    /\ \E c \in {[call EXCEPT !.total = call.total + 1, !.ir = call.ir + 1,
                               !.pc = IF call.ir + 1 < Shape0(call.cur[1])
                                      THEN "rows" ELSE "loop"]} :
        IF Len(call.indices) < call.n[1]
        THEN call' = [c EXCEPT !.indices = Append(@, <<call.i, call.ir>>)]
        ELSE \E x \in 0..(RandomGrid - 1) :
                IF x \notin ReplacingDraws(c.total, call.n[1])
                THEN call' = c
                ELSE IF Randint(0, Len(call.indices) - 1) = {}
                THEN call' = RaiseIn(c, Raise("ValueError", "low >= high", 0))
                ELSE \E k \in Randint(0, Len(call.indices) - 1) :
                        call' = [c EXCEPT !.indices[k + 1] = <<call.i, call.ir>>]
    /\ UNCHANGED <<sdf, buffer, passes, rng>>

----------------------------------------------------------------------------
(* The tables of the model.                                                *)

Columns == <<"A", "B">>
Int64s == <<"int64", "int64">>

\* Rows of the in-memory tables of Spec.
Rows == {<<3, 5>>, <<4, 7>>}

Frames(R, lo, hi) == {DataFrame(Columns, Int64s, rows) : rows \in SeqsOf(R, lo, hi)}

ReadDfTables ==
    {ReadDf(df, c, cs) : df \in Frames(Rows, 1, MaxRows), c \in 1..MaxChunksize,
                         cs \in BOOLEAN}

Lines == {<<"3", "5">>, <<"4", "7">>}

ReadStrTables ==
    {ReadStr(<<Columns>> \o lines, c, TRUE) :
        lines \in SeqsOf(Lines, 1, MaxLines), c \in 1..MaxChunksize}

\* Chunks of a user's iterator: the schema of the first, or other names, or
\* other types, or both.
Schemas == {<<Columns, Int64s>>, <<<<"A", "C">>, Int64s>>,
            <<Columns, <<"int64", "float64">>>>,
            <<<<"A", "C">>, <<"int64", "float64">>>>}

AnyChunks ==
    {DataFrame(s[1], s[2], rows) : s \in Schemas, rows \in {<<<<3, 5>>>>, <<<<4, 6>>, <<3, 7>>>>}}

FirstChunks == {ch \in AnyChunks : ch.columns = Columns /\ ch.dtypes = Int64s}

ChunkLists ==
    {<<>>} \cup {<<f>> \o rest : f \in FirstChunks, rest \in SeqsOf(AnyChunks, 0, MaxChunks - 1)}

UserTables == {FromChunks(chunks, cs) : chunks \in ChunkLists, cs \in BOOLEAN}

\* The right operand of the merges of Spec.
RightTable ==
    ReadDf(DataFrame(<<"A", "C">>, Int64s, <<<<3, 8>>, <<4, 9>>>>), 1, TRUE)

\* The deterministic transformations of table e, one instance of each.
Transforms(e) ==
    {Transform("where", e), Transform("apply", e), Transform("applymap", e),
     Transform("fillna", e), GetItemOf(e, <<"B", "A">>), AddColumnOf(e, "d", 1),
     GroupbyStreaming(e, "A", "cum", TRUE),
     GroupbyStreaming(e, "A", "streaming", TRUE),
     MergeOf(e, RightTable, "inner"),
     ConcatOf(e, <<e>>, 0), ConcatOf(e, <<RightTable>>, 0),
     ConcatOf(e, <<RightTable>>, 1)}

\* Chains of two transformations.
Chains(e) ==
    {Transform("fillna", Transform("where", e)),
     GroupbyStreaming(AddColumnOf(e, "d", 1), "A", "cum", FALSE),
     Transform("applymap", MergeOf(e, RightTable, "inner"))}

DerivedTables ==
    UNION {Transforms(e) \cup Chains(e) :
             e \in {t \in ReadDfTables : t.check_schema}}

Init ==
    /\ sdf \in ReadDfTables \cup ReadStrTables \cup UserTables \cup DerivedTables
    /\ buffer = 0
    /\ passes = [p \in 1..NPass |-> IdlePass]
    /\ call = NoCall
    /\ rng \in (IF Randomized(sdf) THEN Draws ELSE {FirstDraw})

Next == \E p \in 1..NPass : StartPass(p) \/ Pull(p) \/ Close(p)

Spec == Init /\ [][Next]_vars

----------------------------------------------------------------------------
(* SpecCall: the terminal methods on tables built by read_df.              *)

\* The rows of the example of groupby.
GroupRows == {<<3, 5>>, <<4, 6>>, <<3, 7>>}

CallTables ==
    {ReadDf(df, c, TRUE) : df \in Frames(GroupRows, 0, MaxRows),
                           c \in 1..MaxChunksize}

InitCall ==
    /\ sdf \in CallTables
    /\ buffer = 0
    /\ passes = [p \in 1..NPass |-> IdlePass]
    /\ call = NoCall
    /\ rng \in (IF Randomized(sdf) THEN Draws ELSE {FirstDraw})

NextCall ==
    \/ ToDataframeStart \/ ToDataframeStep
    \/ (\E n \in 0..MaxN : HeadStart(n)) \/ HeadStep
    \/ (\E n \in 0..MaxN : TailStart(n)) \/ TailStep
    \/ GroupbyStart \/ GroupbyStep

SpecCall == InitCall /\ [][NextCall]_vars

----------------------------------------------------------------------------
(* SpecGroup: generators on groupby_streaming(strategy='cum') of a table   *)
(* built by read_df, and groupby on either.                                *)

InitGroup ==
    /\ sdf \in {GroupbyStreaming(ReadDf(df, c, TRUE), "A", "cum", TRUE) :
                  df \in Frames(GroupRows, 1, MaxRows), c \in 1..MaxChunksize}
    /\ buffer = 0
    /\ passes = [p \in 1..NPass |-> IdlePass]
    /\ call = NoCall
    /\ rng \in (IF Randomized(sdf) THEN Draws ELSE {FirstDraw})

NextGroup == Next \/ GroupbyStart \/ GroupbyStep

SpecGroup == InitGroup /\ [][NextGroup]_vars

----------------------------------------------------------------------------
(* SpecMerge: one generator on the merge of two tables built by read_df.   *)

MaxMergeRows == 2   \* rows of each operand of a merge

LeftFrames == Frames(Rows, 1, MaxMergeRows)
RightFrames ==
    {DataFrame(<<"A", "C">>, Int64s, rows) :
        rows \in SeqsOf({<<3, 8>>, <<4, 9>>}, 1, MaxMergeRows)}

MergeTables ==
    {MergeOf(ReadDf(l, cl, cs), ReadDf(r, cr, TRUE), how) :
        l \in LeftFrames, r \in RightFrames, cl \in 1..MaxMergeRows,
        cr \in 1..MaxMergeRows, cs \in BOOLEAN,
        how \in {"inner", "left", "right", "outer"}}

ClosedPass == [IdlePass EXCEPT !.st = "closed", !.fr.pc = "end"]

InitMerge ==
    /\ sdf \in MergeTables
    /\ buffer = 0
    /\ passes = [p \in 1..NPass |-> IF p = 1 THEN IdlePass ELSE ClosedPass]
    /\ call = NoCall
    /\ rng \in (IF Randomized(sdf) THEN Draws ELSE {FirstDraw})

SpecMerge == InitMerge /\ [][Next]_vars

----------------------------------------------------------------------------
(* SpecConcat: one generator on the concatenation, along either axis, of a *)
(* table built by read_df with a list of tables built by read_df.          *)

MaxConcatRows == 2  \* rows of each operand of a concat
MaxOthers == 2      \* tables in the list given to concat

ConcatRowsOf(n) == [i \in 1..n |-> IF i % 2 = 1 THEN <<3, 5>> ELSE <<4, 7>>]

\* The first table, which may have no row and so no chunk.
ConcatFirsts ==
    {ReadDf(DataFrame(Columns, Int64s, ConcatRowsOf(n)), c, cs) :
        n \in 0..MaxConcatRows, c \in {1, MaxConcatRows}, cs \in BOOLEAN}

\* The operands: of the schema of the first table, of other names, of other
\* types.
ConcatOperands ==
    {ReadDf(DataFrame(s[1], s[2], ConcatRowsOf(n)), c, TRUE) :
        s \in {<<Columns, Int64s>>, <<<<"A", "C">>, Int64s>>,
               <<Columns, <<"int64", "float64">>>>},
        n \in 1..MaxConcatRows, c \in {1, MaxConcatRows}}
    \cup {FromChunks(<<DataFrame(Columns, Int64s, ConcatRowsOf(1)),
                       DataFrame(Columns, Int64s, ConcatRowsOf(2))>>, TRUE)}

ConcatTables ==
    {ConcatOf(f, others, axis) :
        f \in ConcatFirsts, others \in SeqsOf(ConcatOperands, 1, MaxOthers),
        axis \in {0, 1}}

InitConcat ==
    /\ sdf \in ConcatTables
    /\ buffer = 0
    /\ passes = [p \in 1..NPass |-> IF p = 1 THEN IdlePass ELSE ClosedPass]
    /\ call = NoCall
    /\ rng \in (IF Randomized(sdf) THEN Draws ELSE {FirstDraw})

SpecConcat == InitConcat /\ [][Next]_vars

----------------------------------------------------------------------------
(* SpecSample: sample on a table, then generators on the table it returns. *)

MaxSampleRows == 4  \* rows of a table given to sample
MaxSample == 2      \* n given to sample

SampleTables ==
    {ReadDf(DataFrame(Columns, Int64s, [i \in 1..n |-> <<i, 5>>]), c, TRUE) :
        n \in 0..MaxSampleRows, c \in 1..2}
    \cup {ReadStr(<<Columns>> \o [i \in 1..n |-> <<"3", "5">>], c, TRUE) :
             n \in 1..2, c \in 1..2}
    \cup {[FromChunks(<<DataFrame(Columns, Int64s, <<<<3, 5>>, <<4, 7>>>>)>>, TRUE)
             EXCEPT !.stable = FALSE]}

InitSample ==
    /\ sdf \in SampleTables
    /\ buffer = 0
    /\ passes = [p \in 1..NPass |-> IdlePass]
    /\ call = NoCall
    /\ rng = FirstDraw

NextSample ==
    \/ \E reservoir, cache, frac \in BOOLEAN :
         \E n \in {<<>>} \cup {<<v>> : v \in 1..MaxSample} :
            SampleStart(reservoir, cache, n, frac)
    \/ SampleStep
    \/ SampleRow
    \/ (call.fn = "sample" /\ call.pc = "returned" /\ Next)

SpecSample == InitSample /\ [][NextSample]_vars

----------------------------------------------------------------------------
(* SpecCsv: to_csv on a table built on a user's chunks, whose generator    *)
(* may raise a schema error, or on a table built by read_df.               *)

InitCsv ==
    /\ sdf \in UserTables \cup {t \in ReadDfTables : t.check_schema}
    /\ buffer = 0
    /\ passes = [p \in 1..NPass |-> IdlePass]
    /\ call = NoCall
    /\ rng = FirstDraw

NextCsv == (\E target \in {"none", "path", "buf"} : ToCsvStart(target)) \/ ToCsvStep

SpecCsv == InitCsv /\ [][NextCsv]_vars

----------------------------------------------------------------------------
(* SpecLazy: the transformations as steps.  Calling one on sdf makes the   *)
(* table it returns the new sdf; generators are created afterwards.        *)

MaxDepth == 2       \* transformations in a chain

\* is_stable(do_check=False): return self.stable
IsStable(e) == e.stable

RECURSIVE Depth(_)
Depth(e) == IF "parent" \in DOMAIN e THEN 1 + Depth(e.parent) ELSE 0

\* What the transformations return on table e: every one on a table that is
\* no transformation, two of them on the others.
Derivations(e) ==
    IF Depth(e) = 0 THEN Transforms(e) \cup {SampleOf(e)}
    ELSE {Transform("where", e), Transform("fillna", e)}

\* A mutant of Derive: the transformation takes the first chunk of the table
\* when it is called.
DeriveEager ==
    /\ call = NoCall
    /\ \A p \in 1..NPass : passes[p].st = "idle"
    /\ Depth(sdf) < MaxDepth
    /\ \E t \in Derivations(sdf) :
          /\ sdf' = t
          /\ rng' \in (IF Randomized(t) THEN Draws ELSE {rng})
    /\ buffer' = IterNext(sdf, NewIter, buffer).buf
    /\ UNCHANGED <<passes, call>>

\* where, apply, applymap, __getitem__, add_column, fillna, merge, concat,
\* groupby_streaming, sample(frac) without cache: each returns
\* StreamingDataFrame(lambda: ..., ...) and the constructor keeps the function.
Derive ==
    /\ call = NoCall
    /\ \A p \in 1..NPass : passes[p].st = "idle"
    /\ Depth(sdf) < MaxDepth
    /\ \E t \in Derivations(sdf) :
          /\ sdf' = t
          /\ rng' \in (IF Randomized(t) THEN Draws ELSE {rng})
    /\ UNCHANGED <<buffer, passes, call>>

LazyTables ==
    {ReadDf(DataFrame(Columns, Int64s, rows), c, TRUE) :
        rows \in {<<<<3, 5>>>>, <<<<3, 5>>, <<4, 7>>>>}, c \in 1..2}
    \cup {ReadStr(<<Columns>> \o lines, 1, TRUE) :
            lines \in {<<<<"3", "5">>>>, <<<<"3", "5">>, <<"4", "7">>>>}}

InitLazy ==
    /\ sdf \in LazyTables
    /\ buffer = 0
    /\ passes = [p \in 1..NPass |-> IdlePass]
    /\ call = NoCall
    /\ rng = FirstDraw

NextLazy == Derive \/ Next

SpecLazy == InitLazy /\ [][NextLazy]_vars

----------------------------------------------------------------------------
(* SpecStrategy: groupby_streaming, groupby and sort_values called on a     *)
(* table built by read_df, with their parameters in_memory and strategy.    *)
(* The table groupby_streaming returns becomes sdf.                         *)

\* The locals of the three methods: strategy is <<>> for None.
StrategyLocals(fn, self, in_memory, strategy) ==
    [fn |-> fn, self |-> self, arg |-> 0, pc |-> "loop", fr |-> NewIter,
     n |-> 0, st |-> <<>>, total |-> 0, ret |-> <<>>, err |-> StopIteration,
     in_memory |-> in_memory, strategy |-> strategy]

OutOfMemory ==
    Raise("NotImplementedError", "Out-of-memory group by is not implemented.", 0)

\* groupby_streaming(by, in_memory=, strategy=, as_index=): the test of
\* in_memory, then the one of strategy.
GroupbyStreamingCall(in_memory, strategy, as_index) ==
    /\ call = NoCall
    /\ \A p \in 1..NPass : passes[p].st = "idle"
    /\ Depth(sdf) = 0
    /\ \E c \in {StrategyLocals("groupby_streaming", sdf, in_memory, strategy)} :
        IF ~in_memory
        THEN call' = RaiseIn(c, OutOfMemory) /\ UNCHANGED sdf
        ELSE IF strategy \in {<<"cum">>, <<"streaming">>}
        THEN \E t \in {GroupbyStreaming(sdf, "A", strategy[1], as_index)} :
                call' = Return(c, t) /\ sdf' = t
        ELSE call' = RaiseIn(c, Raise("ValueError", "Unknown strategy", 0))
             /\ UNCHANGED sdf
    /\ UNCHANGED <<buffer, passes, rng>>

\* A mutant of GroupbyCall: in_memory is not looked at.
GroupbyCallAnyMemory(in_memory) ==
    /\ call = NoCall
    /\ \A p \in 1..NPass : passes[p].st = "idle"
    /\ call' = StrategyLocals("groupby", sdf, in_memory, <<>>)
    /\ UNCHANGED <<sdf, buffer, passes, rng>>

\* groupby(by, in_memory=) up to its loop, which GroupbyStep goes through.
GroupbyCall(in_memory) ==
    /\ call = NoCall
    /\ \A p \in 1..NPass : passes[p].st = "idle"
    /\ \E c \in {StrategyLocals("groupby", sdf, in_memory, <<>>)} :
        call' = IF in_memory THEN c ELSE RaiseIn(c, OutOfMemory)
    /\ UNCHANGED <<sdf, buffer, passes, rng>>

\* sort_values(*args, **kwargs)
SortValuesCall ==
    /\ call = NoCall
    /\ \A p \in 1..NPass : passes[p].st = "idle"
    /\ call' = RaiseIn(StrategyLocals("sort_values", sdf, TRUE, <<>>),
                       Raise("StreamingInefficientException", "sort_values", 0))
    /\ UNCHANGED <<sdf, buffer, passes, rng>>

Strategies == {<<>>, <<"cum">>, <<"streaming">>, <<"mean">>}

StrategyTables ==
    {ReadDf(df, c, TRUE) : df \in Frames(GroupRows, 1, MaxRows),
                           c \in 1..MaxChunksize}

InitStrategy ==
    /\ sdf \in StrategyTables
    /\ buffer = 0
    /\ passes = [p \in 1..NPass |-> IdlePass]
    /\ call = NoCall
    /\ rng = FirstDraw

NextStrategy ==
    \/ \E in_memory, as_index \in BOOLEAN : \E strategy \in Strategies :
          GroupbyStreamingCall(in_memory, strategy, as_index)
    \/ \E in_memory \in BOOLEAN : GroupbyCall(in_memory)
    \/ GroupbyStep
    \/ SortValuesCall
    \/ (call.fn = "groupby_streaming" /\ call.pc = "returned" /\ Next)

SpecStrategy == InitStrategy /\ [][NextStrategy]_vars

----------------------------------------------------------------------------
(* SpecConstruct: read_df and read_str called with or without a chunksize.  *)
(* The table the constructor returns becomes sdf; before, sdf is a table on *)
(* no chunk, which nothing walks through.                                   *)

DefaultChunksize == 100000  \* kwargs['chunksize'] = 100000 in read_str

\* The locals of a constructor: chunksize is <<>> when it is not given.
ConstructLocals(fn, chunksize) ==
    [fn |-> fn, chunksize |-> chunksize, pc |-> "loop", ret |-> <<>>,
     err |-> StopIteration]

\* read_df(df, chunksize): without chunksize, df.shape[0]; no test on it.
ReadDfCall(df, chunksize) ==
    /\ call = NoCall
    /\ \E t \in {ReadDf(df, IF chunksize = <<>> THEN Shape0(df) ELSE chunksize[1],
                         TRUE)} :
          /\ call' = Return(ConstructLocals("read_df", chunksize), t)
          /\ sdf' = t
    /\ UNCHANGED <<buffer, passes, rng>>

\* read_str(text, chunksize=...):
\*     if not kwargs.get('chunksize', 100000): raise ValueError(...)
\*     if 'chunksize' not in kwargs: kwargs['chunksize'] = 100000
ReadStrCall(text, chunksize) ==
    /\ call = NoCall
    /\ \E c \in {ConstructLocals("read_str", chunksize)} :
        IF chunksize = <<0>>
        THEN /\ call' = RaiseIn(c, Raise("ValueError",
                            "If specified, chunksize must not be None.", 0))
             /\ UNCHANGED sdf
        ELSE \E t \in {ReadStr(text, IF chunksize = <<>> THEN DefaultChunksize
                                      ELSE chunksize[1], TRUE)} :
                call' = Return(c, t) /\ sdf' = t
    /\ UNCHANGED <<buffer, passes, rng>>

Chunksizes == {<<>>} \cup {<<v>> : v \in -1..MaxChunksize}

InitConstruct ==
    /\ sdf = FromChunks(<<>>, TRUE)
    /\ buffer = 0
    /\ passes = [p \in 1..NPass |-> IdlePass]
    /\ call = NoCall
    /\ rng = FirstDraw

NextConstruct ==
    \/ \E df \in Frames(Rows, 0, MaxRows), chunksize \in Chunksizes :
          ReadDfCall(df, chunksize)
    \/ \E lines \in SeqsOf(Lines, 1, MaxLines), chunksize \in Chunksizes :
          ReadStrCall(<<Columns>> \o lines, chunksize)
    \/ (call.fn \in {"read_df", "read_str"} /\ call.pc = "returned" /\ Next)

SpecConstruct == InitConstruct /\ [][NextConstruct]_vars

----------------------------------------------------------------------------
(* SpecReservoir: generators on reservoir_iterate over a table built by     *)
(* read_df, for sets of at most MaxKept identifiers and for the chunksize   *)
(* _reservoir_sampling gives it and smaller ones.                           *)

MaxKept == 3        \* identifiers in indices

ReservoirTables ==
    {ReservoirIterateOf(
        ReadDf(DataFrame(Columns, Int64s, [i \in 1..n |-> <<i, 5>>]), c, TRUE),
        ids, out) :
        n \in 1..MaxSampleRows, c \in 1..2, out \in {1, 2, ReservoirChunksize},
        ids \in {S \in SUBSET ((0..(MaxSampleRows - 1)) \X (0..1)) :
                    Cardinality(S) <= MaxKept}}

InitReservoir ==
    /\ sdf \in ReservoirTables
    /\ buffer = 0
    /\ passes = [p \in 1..NPass |-> IdlePass]
    /\ call = NoCall
    /\ rng = FirstDraw

SpecReservoir == InitReservoir /\ [][Next]_vars

----------------------------------------------------------------------------
(* The properties.                                                         *)

\* The table at the root of a chain of transformations.
RECURSIVE Root(_)
Root(e) == IF "parent" \in DOMAIN e THEN Root(e.parent) ELSE e

\* The number of chunks of size rows cut every c rows, and the k-th of them.
NumChunks(size, c) == (size + c - 1) \div c
ExpectedChunk(df, c, k) == Slice(df, (k - 1) * c, Min(Shape0(df), k * c))

AllRows(out) == Flatten([k \in 1..Len(out) |-> out[k].rows])

\* The multiset of the elements of a sequence.
BagOfSeq(s) ==
    [x \in {s[i] : i \in 1..Len(s)} |-> Cardinality({i \in 1..Len(s) : s[i] = x})]

Finished(p) == passes[p].st \in {"done", "error"}

\* C1: for a table T of at least one row and a positive chunksize c, the
\* chunks to_dataframe takes from read_df(T, c) are the consecutive slices of c
\* rows of T in order, each but the last of exactly c rows and the last of 1..c
\* rows, and to_dataframe returns T itself.
C1_ReadDfPartitionsTable ==
    (call.fn = "to_dataframe" /\ Shape0(call.self.df) >= 1) =>
        LET T == call.self.df
            c == call.self.chunksize
            N == NumChunks(Shape0(T), c)
        IN  /\ call.pc # "raised"
            /\ Len(call.st) <= N
            /\ \A k \in 1..Len(call.st) :
                  /\ call.st[k] = ExpectedChunk(T, c, k)
                  /\ Shape0(call.st[k]) \in 1..c
                  /\ (k < N => Shape0(call.st[k]) = c)
            /\ (call.pc = "returned" => Len(call.st) = N /\ call.ret = <<T>>)

\* C1's case: to_dataframe returned on a table of two chunks, the last one short.
C1_Witness ==
    /\ call.fn = "to_dataframe" /\ call.pc = "returned"
    /\ Len(call.st) = 2
    /\ Shape0(call.st[2]) < call.self.chunksize

\* C2: a full iteration of a table built by read_str that starts after another
\* full iteration ended yields the same chunks as that one.
C2_ReadStrReiterates ==
    \A p, q \in 1..NPass :
        (/\ sdf.tag = "read_str"
         /\ passes[p].st = "done" /\ passes[p].after = {}
         /\ p \in passes[q].after /\ Finished(q))
        => (passes[q].st = "done" /\ passes[q].out = passes[p].out)

\* C3: on a table built by read_df and a chain of deterministic
\* transformations, any two generators yield the same chunks in the same order
\* and end the same way, however their steps interleave and whether or not one
\* was given up.
C3_PassesAgree ==
    Root(sdf).tag = "read_df" =>
        \A p, q \in 1..NPass :
            LET a == passes[p].out
                b == passes[q].out
            IN  /\ \A k \in 1..Min(Len(a), Len(b)) : a[k] = b[k]
                /\ (Finished(p) => Len(b) <= Len(a))
                /\ (Finished(p) /\ Finished(q) =>
                        /\ passes[p].st = passes[q].st
                        /\ passes[p].err = passes[q].err)

\* C3's case: on a merge, the first generator was given up after one chunk
\* while the second, created before that, went to its end.
C3_Witness ==
    /\ sdf.tag = "merge" /\ Root(sdf).tag = "read_df"
    /\ passes[1].st = "closed" /\ Len(passes[1].out) = 1
    /\ passes[2].st = "done" /\ Len(passes[2].out) >= 2
    /\ passes[2].after = {}

\* C4: with check_schema, every chunk a generator yields has the column names
\* and the column types of the first chunk it yielded; without, no schema error
\* is raised and a generator that ends has yielded every chunk of the source.
C4_SchemaWithinPass ==
    \A p \in 1..NPass :
        LET out == passes[p].out IN
        /\ sdf.check_schema =>
              \A k \in 1..Len(out) : /\ out[k].columns = out[1].columns
                                     /\ out[k].dtypes = out[1].dtypes
        /\ ~sdf.check_schema =>
              /\ passes[p].err.exc # "StreamingDataFrameSchemaError"
              /\ sdf.tag = "iter_creation" =>
                    /\ passes[p].st # "error"
                    /\ out = SubSeq(sdf.chunks, 1, Len(out))
                    /\ (passes[p].st = "done" => out = sdf.chunks)

\* C4's case: with check_schema, a generator raised on a chunk of other types
\* after it yielded two chunks.
C4_Witness ==
    /\ sdf.tag = "iter_creation" /\ sdf.check_schema
    /\ passes[1].st = "error" /\ passes[1].err.msg = "types"
    /\ Len(passes[1].out) = 2

\* C5: head(n) returns the first min(n, total_rows) rows of the table.
C5_HeadReturnsFirstRows ==
    (call.fn = "head" /\ call.pc = "returned" /\ call.ret # <<>>) =>
        call.ret[1].rows =
            SubSeq(call.self.df.rows, 1, Min(call.arg, Shape0(call.self.df)))

\* C6: tail(n) returns the last min(n, total_rows) rows of the table, also
\* when the last chunk has fewer than n rows and when there is no chunk.
C6_TailReturnsLastRows ==
    (call.fn = "tail" /\ call.pc \in {"returned", "raised"}) =>
        LET T == call.self.df
            m == Min(call.arg, Shape0(T))
        IN  /\ call.pc = "returned"
            /\ call.ret[1].rows = SubSeq(T.rows, Shape0(T) - m + 1, Shape0(T))

\* C7: groupby on a table, the last chunk of groupby_streaming('cum') on it
\* and a group-by-sum of the whole table at once give the same sums per key;
\* the example of three rows in three chunks gives A=3: 12 and A=4: 6.
C7_GroupbyAgree ==
    LET T       == sdf.parent.df
        single  == GroupBySum(T, "A", TRUE)
        example == T.rows = <<<<3, 5>>, <<4, 6>>, <<3, 7>>>>
                   /\ sdf.parent.chunksize = 1
    IN  /\ (call.fn = "groupby" /\ call.self = sdf.parent) =>
              /\ call.pc # "raised"
              /\ (call.pc = "returned" => call.ret = <<single>>)
              /\ (call.pc = "returned" /\ example =>
                     call.ret[1].rows = <<<<3, 12>>, <<4, 6>>>>)
        /\ \A p \in 1..NPass :
              passes[p].st = "done" =>
                 /\ passes[p].out # <<>>
                 /\ passes[p].out[Len(passes[p].out)] = single

\* C7's case: on the example, groupby returned and a generator of the
\* cumulative table ended after three chunks.
C7_Witness ==
    /\ sdf.parent.df.rows = <<<<3, 5>>, <<4, 6>>, <<3, 7>>>>
    /\ sdf.parent.chunksize = 1
    /\ call.fn = "groupby" /\ call.self = sdf.parent /\ call.pc = "returned"
    /\ passes[1].st = "done" /\ Len(passes[1].out) = 3

\* The aggregates of the first k chunks of read_df(T, c), concatenated.
PartialAggs(T, c, k) ==
    PandasConcat([j \in 1..k |-> GroupBySum(ExpectedChunk(T, c, j), "A", FALSE)])

\* C8: groupby_streaming('cum') yields one chunk per chunk of its parent, and
\* the k-th is the cross-chunk sum of the aggregates of chunks 1..k of the
\* parent, each counted once.
C8_CumRunningTotal ==
    \A p \in 1..NPass :
        LET T   == sdf.parent.df
            c   == sdf.parent.chunksize
            out == passes[p].out
        IN  /\ \A k \in 1..Len(out) :
                  out[k] = GroupBySum(PartialAggs(T, c, k), "A", TRUE)
            /\ (passes[p].st = "open" /\ passes[p].fr.pc = "run" =>
                  passes[p].fr.iters.src.rows = Min(Len(out) * c, Shape0(T)))
            /\ (passes[p].st = "done" => Len(out) = NumChunks(Shape0(T), c))

\* C8's case: the third chunk of a running total whose key 3 came in the first
\* and in the third chunk of the parent.
C8_Witness ==
    /\ Len(passes[1].out) = 3
    /\ sdf.parent.chunksize = 1
    /\ sdf.parent.df.rows[1][1] = 3 /\ sdf.parent.df.rows[2][1] = 4
    /\ sdf.parent.df.rows[3][1] = 3

\* C9: the inner merge of A in a chunks with B in b chunks yields a*b chunks,
\* the joins of every chunk of A with every chunk of B, and over all of them
\* the multiset of rows of the inner merge of A and B whole.
C9_InnerMergeOfChunks ==
    sdf.how = "inner" =>
        LET A   == sdf.parent.df
            B   == sdf.right.df
            ca  == sdf.parent.chunksize
            cb  == sdf.right.chunksize
            a   == NumChunks(Shape0(A), ca)
            b   == NumChunks(Shape0(B), cb)
            out == passes[1].out
        IN  /\ passes[1].st # "error"
            /\ Len(out) <= a * b
            /\ \A k \in 1..Len(out) :
                  out[k] = Merge(ExpectedChunk(A, ca, ((k - 1) \div b) + 1),
                                 ExpectedChunk(B, cb, ((k - 1) % b) + 1), "inner")
            /\ (passes[1].st = "done" =>
                  /\ Len(out) = a * b
                  /\ BagOfSeq(AllRows(out)) = BagOfSeq(Merge(A, B, "inner").rows))

\* C9's case: an inner merge of two tables of two chunks each went to its end
\* and yielded rows.
C9_Witness ==
    /\ sdf.how = "inner" /\ passes[1].st = "done"
    /\ Len(passes[1].out) = 4
    /\ Len(AllRows(passes[1].out)) >= 2

\* C10: for every how, the merge of chunked tables ends without error and
\* yields the multiset of rows of the merge of the tables whole.
C10_MergeOfChunksAnyHow ==
    Finished(1) =>
        /\ passes[1].st = "done"
        /\ BagOfSeq(AllRows(passes[1].out)) =
              BagOfSeq(Merge(sdf.parent.df, sdf.right.df, sdf.how).rows)

\* The chunks a full walk through table t, built by read_df or on a list of
\* chunks, yields when nothing fails.
ChunksOf(t) ==
    IF t.tag = "iter_creation" THEN t.chunks
    ELSE [k \in 1..NumChunks(Shape0(t.df), t.chunksize) |->
            ExpectedChunk(t.df, t.chunksize, k)]

SchemaOf(df) == <<df.columns, df.dtypes>>

\* The chunks of the first table of a concat then those of others[1..j].
ChunksUpTo(e, j) ==
    ChunksOf(e.parent) \o Flatten([i \in 1..j |-> ChunksOf(e.others[i])])

\* C11: concat(axis=0) of a table with operands of its schema yields the
\* chunks of the table then the chunks of each operand in the order of the
\* list: it does not fail, its rows are as many as those of all the tables
\* together and every chunk has the schema of the tables.
C11_ConcatvYieldsAllChunks ==
    (/\ sdf.axis = 0
     /\ \A j \in 1..Len(sdf.others) : \A k \in 1..Len(ChunksOf(sdf.others[j])) :
            SchemaOf(ChunksOf(sdf.others[j])[k]) = SchemaOf(sdf.parent.df))
    => LET all == ChunksUpTo(sdf, Len(sdf.others))
           out == passes[1].out
       IN  /\ passes[1].st # "error"
           /\ Len(out) <= Len(all)
           /\ \A k \in 1..Len(out) :
                 out[k] = all[k] /\ SchemaOf(out[k]) = SchemaOf(sdf.parent.df)
           /\ (passes[1].st = "done" =>
                 /\ out = all
                 /\ Len(AllRows(out)) =
                       Shape0(sdf.parent.df)
                       + SumSeq([j \in 1..Len(sdf.others) |->
                                   Len(AllRows(ChunksOf(sdf.others[j])))]))

\* The operands of a concat whose first chunk has not the schema of the first
\* chunk of the first table.
BadOperands(e) ==
    {j \in 1..Len(e.others) :
        SchemaOf(ChunksOf(e.others[j])[1]) # SchemaOf(ChunksOf(e.parent)[1])}

\* C12: in concat(axis=0), when the operand at index j of the list (from 0)
\* is the first whose names or types are not those of the first chunk of the
\* first table, the walk fails before it yields a chunk of that operand, and
\* the error tells names from types and names index j.
C12_ConcatvNamesOperand ==
    (/\ sdf.axis = 0 /\ Shape0(sdf.parent.df) >= 1
     /\ BadOperands(sdf) # {} /\ Finished(1))
    => LET j   == CHOOSE x \in BadOperands(sdf) : \A y \in BadOperands(sdf) : x <= y
           bad == ChunksOf(sdf.others[j])[1]
       IN  /\ passes[1].st = "error"
           /\ passes[1].err.exc = "ValueError"
           /\ passes[1].out = ChunksUpTo(sdf, j - 1)
           /\ passes[1].err.msg = IF bad.columns # sdf.parent.df.columns
                                  THEN "names" ELSE "types"
           /\ passes[1].err.row = j - 1

\* The i-th chunks of the tables of a concat(axis=1).
Group(e, i) == [k \in 1..(1 + Len(e.others)) |-> ChunksOf((<<e.parent>> \o e.others)[k])[i]]

\* The number of chunks of the table of a concat(axis=1) that has the fewest.
FewestChunks(e) ==
    CHOOSE n \in 0..(MaxConcatRows + 1) :
        /\ \A k \in 1..(1 + Len(e.others)) :
              n <= Len(ChunksOf((<<e.parent>> \o e.others)[k]))
        /\ \E k \in 1..(1 + Len(e.others)) :
              n = Len(ChunksOf((<<e.parent>> \o e.others)[k]))

\* The groups of chunks that have not all the same number of rows.
UnevenGroups(e) ==
    {i \in 1..FewestChunks(e) :
        \E k \in 1..(1 + Len(e.others)) : Shape0(Group(e, i)[k]) # Shape0(Group(e, i)[1])}

\* C13: concat(axis=1) yields for the i-th chunks of all the tables their
\* concatenation by columns, stops with the table of the fewest chunks, and
\* fails at the first group whose chunks have not the same number of rows,
\* yielding nothing for it.
C13_ConcathPairsChunks ==
    sdf.axis = 1 =>
        LET out == passes[1].out
            n   == FewestChunks(sdf)
            bad == UnevenGroups(sdf)
        IN  /\ Len(out) <= n
            /\ \A i \in 1..Len(out) :
                  i \notin bad /\ out[i] = ConcatColumns(Group(sdf, i))
            /\ (Finished(1) /\ bad = {} =>
                  passes[1].st = "done" /\ Len(out) = n)
            /\ (Finished(1) /\ bad # {} =>
                  /\ passes[1].st = "error"
                  /\ passes[1].err.exc = "RuntimeError"
                  /\ \A i \in bad : Len(out) < i
                  /\ Len(out) + 1 \in bad)

\* C13's case: one group was yielded and the second one, of chunks of one row
\* and of two rows, failed.
C13_Witness ==
    /\ sdf.axis = 1
    /\ passes[1].st = "error" /\ passes[1].err.exc = "RuntimeError"
    /\ Len(passes[1].out) = 1
    /\ Len(passes[1].out[1].columns) = 2 * (1 + Len(sdf.others))

\* The rows a generator yielded, in one sequence.
RowsOfPass(p) == AllRows(passes[p].out)

\* A run of _reservoir_sampling: sample was given n and cache and no frac.
Reservoir == call.fn = "sample" /\ call.way = "reservoir" /\ call.err.exc # "KeyError"
             /\ call.args.cache /\ ~call.args.frac /\ call.args.n # <<>>

\* C14: for n >= 1 and a table of L >= n rows built by read_df, reservoir
\* sampling does not fail and the table it returns has n rows, all of them
\* rows of the source, no two the same.
C14_ReservoirKeepsNRows ==
    (/\ Reservoir /\ call.self.tag = "read_df"
     /\ Shape0(call.self.df) >= call.n[1])
    => /\ call.pc # "raised"
       /\ (call.pc = "returned" =>
             Cardinality({call.indices[k] : k \in 1..Len(call.indices)}) = call.n[1])
       /\ \A p \in 1..NPass :
             /\ passes[p].st # "error"
             /\ (passes[p].st = "done" =>
                   LET rows == RowsOfPass(p) IN
                   /\ Len(rows) = call.n[1]
                   /\ \A a, b \in 1..Len(rows) : a # b => rows[a][1] # rows[b][1]
                   /\ \A a \in 1..Len(rows) :
                         rows[a][2] = call.self.df.rows[rows[a][1] + 1])

\* C15: after the first pass of reservoir sampling over L > n rows every row
\* is in the reservoir with probability n/L.  The last row is in it if and
\* only if its draw x replaces a row of the reservoir, so the draws that
\* replace are n/L of the draws.
C15_ReservoirIsUniform ==
    (/\ Reservoir /\ call.pc = "returned" /\ call.total > call.n[1])
    => Cardinality(ReplacingDraws(call.total, call.n[1])) * call.total
          = call.n[1] * RandomGrid

\* C16: a generator on the table reservoir sampling returns never invokes
\* the chunk source of the parent, and two full walks yield the same.
C16_ReservoirIsCached ==
    (Reservoir /\ call.pc = "returned") =>
        /\ \A p \in 1..NPass :
              /\ passes[p].st # "error"
              /\ (passes[p].fr.pc # "new" => passes[p].fr.iters.src.pc = "new")
        /\ \A p, q \in 1..NPass :
              passes[p].st = "done" /\ passes[q].st = "done" =>
                 passes[p].out = passes[q].out

\* C17: reservoir sampling asked on a table whose stable flag is False fails,
\* or walks through a copy in memory of the table.
C17_ReservoirNeedsStable ==
    (Reservoir /\ ~call.self.stable) =>
        \/ call.pc = "raised" /\ call.fr = NewIter
        \/ call.walked.tag = "read_df"

C19_ToCsvClosesItsFile ==
    (call.fn = "to_csv" /\ call.target = "path"
        /\ call.pc \in {"returned", "raised"})
    => ~call.open

\* The transformations of one chunk at a time, none of them random.
MapTags == {"where", "apply", "applymap", "getitem", "add_column", "fillna"}

RECURSIVE MapChain(_)
MapChain(e) ==
    "parent" \notin DOMAIN e \/ (e.tag \in MapTags /\ MapChain(e.parent))

\* What the chain of transformations e makes of chunk df of its root.
RECURSIVE ChainOp(_, _)
ChainOp(e, df) ==
    IF "parent" \in DOMAIN e THEN ChunkOp(e, ChainOp(e.parent, df)) ELSE df

\* C20: calling a transformation creates no generator, pulls no chunk and
\* leaves the state of the source as it is; the source is touched only once a
\* generator on the table is pulled; and every generator on the returned table
\* goes through the source of the parent from its first chunk, whatever the
\* other generators did.
C20_TransformationsAreLazy ==
    /\ [][sdf' # sdf =>
            /\ buffer' = buffer
            /\ passes' = passes
            /\ \A p \in 1..NPass : passes'[p].fr = NewIter]_vars
    /\ [](/\ ((\A p \in 1..NPass : passes[p].fr.pc = "new") => buffer = 0)
          /\ \A p \in 1..NPass :
                /\ (passes[p].fr.pc = "new" =>
                      passes[p].out = <<>> /\ passes[p].fr.iters = <<>>)
                /\ (MapChain(sdf) /\ Root(sdf).tag = "read_df" =>
                      /\ \A k \in 1..Len(passes[p].out) :
                            passes[p].out[k] =
                                ChainOp(sdf, ChunksOf(Root(sdf))[k])
                      /\ (passes[p].st = "done" =>
                            Len(passes[p].out) = Len(ChunksOf(Root(sdf))))))

\* C20's case: two transformations were called on a table built by read_df,
\* then the second generator went through the table after the first one was
\* given up on its first chunk.
C20_Witness ==
    /\ Depth(sdf) = 2 /\ MapChain(sdf) /\ Root(sdf).tag = "read_df"
    /\ passes[1].st = "closed" /\ Len(passes[1].out) = 1
    /\ passes[2].st = "done" /\ Len(passes[2].out) = 2
    /\ 1 \in passes[2].after

\* The identifiers (i, ir) of the rows of table t: chunk i, row ir of it.
IdsOf(t) ==
    UNION {{<<i - 1, ir - 1>> : ir \in 1..Shape0(ChunksOf(t)[i])} :
              i \in 1..Len(ChunksOf(t))}

\* C21: when n is at least the number L of rows of the table, the first pass
\* of reservoir sampling appends every row it sees and replaces none, it does
\* not fail, the reservoir it ends with holds the identifiers of all the
\* rows, and a walk through the table returned gives the L rows in their order.
C21_ReservoirOfShortTable ==
    (/\ Reservoir /\ call.self.tag \in {"read_df", "iter_creation"}
     /\ call.n[1] >= Len(AllRows(ChunksOf(call.self))))
    => /\ call.pc # "raised"
       /\ Len(call.indices) = call.total
       /\ \A a, b \in 1..Len(call.indices) :
             a # b => call.indices[a] # call.indices[b]
       /\ (call.pc = "returned" =>
             /\ sdf.indices = IdsOf(call.self)
             /\ \A p \in 1..NPass :
                   passes[p].st = "done" =>
                      [k \in 1..Len(RowsOfPass(p)) |-> RowsOfPass(p)[k][2]]
                          = AllRows(ChunksOf(call.self)))

\* C21's case: a reservoir of two rows was asked of a table of two rows in
\* two chunks, and a generator went through the table returned.
C21_Witness ==
    /\ Reservoir /\ call.pc = "returned" /\ call.n[1] = 2 /\ call.total = 2
    /\ call.self.tag = "read_df" /\ call.self.chunksize = 1
    /\ passes[1].st = "done" /\ Len(RowsOfPass(1)) = 2

\* C22: a generator on groupby_streaming(strategy='streaming') of a table
\* built by read_df yields one chunk for each chunk of the table and none
\* else, and the k-th is the aggregate of the k-th chunk of the table, the
\* same whatever the other chunks hold.
C22_StreamingAggregatesEachChunk ==
    (sdf.tag = "groupby_streaming" /\ sdf.strategy = "streaming") =>
        \A p \in 1..NPass :
            LET ins == ChunksOf(sdf.parent)
                out == passes[p].out
            IN  /\ passes[p].st # "error"
                /\ Len(out) <= Len(ins)
                /\ (passes[p].st = "done" => Len(out) = Len(ins))
                /\ \A k \in 1..Len(out) :
                      out[k] = GroupBySum(GroupBySum(ins[k], "A", FALSE), "A",
                                          sdf.as_index)

\* C22's case: the second chunk of the streaming group-by holds a key the
\* first chunk held too.
C22_Witness ==
    /\ sdf.tag = "groupby_streaming" /\ sdf.strategy = "streaming"
    /\ sdf.parent.chunksize = 1
    /\ passes[1].st = "done" /\ Len(passes[1].out) = 3
    /\ passes[1].out[1].rows = <<<<3, 5>>>> /\ passes[1].out[3].rows = <<<<3, 7>>>>

\* No generator was created and nothing was read from the source.
NothingPulled ==
    /\ call.fr = NewIter /\ call.st = <<>> /\ buffer = 0
    /\ \A p \in 1..NPass : passes[p] = IdlePass

\* C23: groupby and groupby_streaming called with in_memory=False raise
\* NotImplementedError, whatever the strategy, and sort_values raises; each
\* before a generator is created on the table, which stays as it was.
C23_OutOfMemoryIsRefused ==
    /\ (call.fn \in {"groupby", "groupby_streaming"} /\ ~call.in_memory =>
          /\ call.pc = "raised" /\ call.err.exc = "NotImplementedError"
          /\ NothingPulled /\ sdf = call.self)
    /\ (call.fn = "sort_values" =>
          call.pc = "raised" /\ NothingPulled /\ sdf = call.self)

\* C23's case: groupby_streaming was called with in_memory=False and a
\* strategy it knows.
C23_Witness ==
    /\ call.fn = "groupby_streaming" /\ ~call.in_memory
    /\ call.strategy = <<"streaming">> /\ call.pc = "raised"

\* C25: groupby_streaming with strategy None walks through the table and
\* returns a dataframe, with 'cum' and with 'streaming' it returns a table of
\* that strategy.
C25_ThreeStrategies ==
    (call.fn = "groupby_streaming" /\ call.in_memory) =>
        /\ (call.strategy = <<>> =>
              /\ call.pc # "raised"
              /\ (call.pc = "returned" => "columns" \in DOMAIN call.ret[1]))
        /\ (call.strategy \in {<<"cum">>, <<"streaming">>} =>
              /\ call.pc = "returned"
              /\ call.ret[1].tag = "groupby_streaming"
              /\ call.ret[1].strategy = call.strategy[1]
              /\ call.ret[1].parent = call.self)

\* The chunks of a list whose schema is not that of the first one.
Offending(chunks) ==
    {k \in 2..Len(chunks) : SchemaOf(chunks[k]) # SchemaOf(chunks[1])}

\* C28: with check_schema, a generator on a list of chunks raises a schema
\* error if and only if it comes to the first chunk k whose schema is not that
\* of chunk 1: it has yielded chunks 1..k-1 and yields nothing more, the row
\* it reports is the number of rows of chunks 1..k-1, and the error is on the
\* names when the names differ, whether or not the types do, on the types
\* otherwise.
C28_SchemaErrorAtFirstOffender ==
    (sdf.tag = "iter_creation" /\ sdf.check_schema) =>
        \A p \in 1..NPass :
            LET chunks == sdf.chunks
                bad    == Offending(chunks)
                k      == CHOOSE j \in bad : \A i \in bad : j <= i
                out    == passes[p].out
            IN  /\ out = SubSeq(chunks, 1, Len(out))
                /\ (bad = {} =>
                      /\ passes[p].st # "error"
                      /\ (passes[p].st = "done" => out = chunks))
                /\ (bad # {} =>
                      /\ Len(out) <= k - 1
                      /\ passes[p].st # "done"
                      /\ (passes[p].st = "error" =>
                            /\ Len(out) = k - 1
                            /\ passes[p].err.exc = "StreamingDataFrameSchemaError"
                            /\ passes[p].err.row = Len(AllRows(out))
                            /\ passes[p].err.msg =
                                  (IF chunks[k].columns # chunks[1].columns
                                   THEN "names" ELSE "types")))

\* C28's case: the third chunk has other names and other types than the
\* first, and the generator raised after the three rows of two chunks.
C28_Witness ==
    /\ sdf.tag = "iter_creation" /\ sdf.check_schema /\ Len(sdf.chunks) = 3
    /\ sdf.chunks[3].columns # Columns /\ sdf.chunks[3].dtypes # Int64s
    /\ passes[1].st = "error" /\ passes[1].err.row = 3

\* C24: read_df and read_str called with a chunksize of zero or less raise
\* ValueError and return no table; called without a chunksize they return a
\* table whose chunksize is the constant 100000.
C24_ChunksizeIsValidated ==
    call.fn \in {"read_df", "read_str"} =>
        /\ (call.chunksize # <<>> /\ call.chunksize[1] <= 0 =>
              call.pc = "raised" /\ call.err.exc = "ValueError")
        /\ (call.chunksize = <<>> =>
              call.pc = "returned" /\ call.ret[1].chunksize = DefaultChunksize)

\* C29: a table a transformation derives from a table whose is_stable() is
\* False has is_stable() False, and two generators that went through a table
\* whose is_stable() is True yielded the same chunks.
C29_StableFlagIsKept ==
    /\ ("parent" \in DOMAIN sdf /\ ~IsStable(sdf.parent) => ~IsStable(sdf))
    /\ (IsStable(sdf) /\ Root(sdf).tag = "read_df" =>
          \A p, q \in 1..NPass :
              passes[p].st = "done" /\ passes[q].st = "done" =>
                  passes[p].out = passes[q].out)

\* C26: when a row replaces one of a full reservoir of n rows, the choice of
\* the slot does not fail, for n = 1 too, and every slot 0..n-1 is one the
\* choice is drawn from.
C26_AnySlotIsReplaced ==
    (Reservoir /\ Len(call.indices) = call.n[1]) =>
        /\ ~(call.pc = "raised" /\ call.err.msg = "low >= high")
        /\ Randint(0, Len(call.indices) - 1) = 0..(call.n[1] - 1)

\* The pairs (label, row) of the rows of the parent of reservoir table e whose
\* identifier is in its indices, in the order of the parent.
Kept(e) ==
    LET T == e.parent.df
        c == e.parent.chunksize
    IN  SelectSeq([g \in 1..Shape0(T) |-> <<g - 1, T.rows[g]>>],
                  LAMBDA pr : <<pr[1] \div c, pr[1] % c>> \in e.indices)

\* C27: a generator on the table of reservoir_iterate creates its own
\* generator on the parent, and yields the rows of the parent whose (chunk,
\* row in chunk) is in indices, each with its label, in the order of the
\* parent and by chunks of the chunksize of reservoir_iterate, 1000 for
\* _reservoir_sampling, whatever the chunksize of the parent: every chunk but
\* the last has chunksize rows, the last has 1..chunksize rows, none is empty.
C27_SecondPassRegroups ==
    \A p \in 1..NPass :
        LET kept == Kept(sdf)
            c    == sdf.chunksize
            N    == NumChunks(Len(kept), c)
            out  == passes[p].out
        IN  /\ passes[p].st # "error"
            /\ Len(out) <= N
            /\ (passes[p].st = "done" => Len(out) = N)
            /\ (passes[p].fr.pc = "run" => passes[p].fr.iters.src.pc # "new")
            /\ (sdf = ReservoirOf(sdf.parent, sdf.indices) => N <= 1)
            /\ \A k \in 1..Len(out) :
                  /\ out[k] = FrameOfPairs(SubSeq(kept, (k - 1) * c + 1,
                                                  Min(Len(kept), k * c)))
                  /\ Shape0(out[k]) \in 1..c
                  /\ (k < N => Shape0(out[k]) = c)

\* C27's case: three rows of a table in chunks of one row are kept and come
\* out in a chunk of two rows and a chunk of one, for the second generator as
\* for the first.
C27_Witness ==
    /\ sdf.chunksize = 2 /\ sdf.parent.chunksize = 1 /\ Len(Kept(sdf)) = 3
    /\ passes[1].st = "done" /\ passes[2].st = "done"
    /\ Len(passes[2].out) = 2 /\ Shape0(passes[2].out[2]) = 1
    /\ 1 \in passes[2].after

\* The keys of the groups in the first k chunks of read_df(T, c).
KeysSeen(T, c, k) ==
    UNION {{ExpectedChunk(T, c, j).rows[i][1] :
              i \in 1..Shape0(ExpectedChunk(T, c, j))} : j \in 1..k}

\* C30: after k chunks of its parent, the state agg that iterate_cum keeps
\* between two chunks has no more rows than there are keys in chunks 1..k.
C30_CumStateIsBounded ==
    \A p \in 1..NPass :
        (passes[p].fr.pc = "run" /\ passes[p].fr.iters.agg # <<>>) =>
            Shape0(passes[p].fr.iters.agg[1])
                <= Cardinality(KeysSeen(sdf.parent.df, sdf.parent.chunksize,
                                        Len(passes[p].out)))

=============================================================================
